---------------------------- MODULE Spec2Model ----------------------------
(***************************************************************************)
(* Sentinel AI: the cleansing engine (data_cleanser.py), the single- and   *)
(* multi-dataset aggregators (utils/data_processing.py), the ML ensemble   *)
(* trainer (components/ml_models.py) and the upload handler with its       *)
(* session state (app.py).                                                 *)
(*                                                                         *)
(* Numbers are exact rationals <<n, d>> (d > 0, lowest terms), so that a   *)
(* division such as total / 10000 or bio / demo * 100 is what the code     *)
(* computes up to floating-point rounding.  A float NaN is <<0, 0>>.       *)
(* Outputs of the scikit-learn estimators are nondeterministic choices     *)
(* from small sets.                                                        *)
(***************************************************************************)
EXTENDS Integers, Sequences, FiniteSets, TLC

VARIABLES
    pc,               \* position of the handler / function under analysis
    df_enrol,         \* app.py:93 role slot (a frame or None)
    df_demo,          \* app.py:93
    df_bio,           \* app.py:93
    files_count,      \* app.py:92
    district_data,    \* app.py:154/165/168 local result of the aggregator / trainer
    ml_results,       \* app.py:168 local
    raised,           \* the exception that ended the function or run ("none" if none)
    df_raw,           \* data_cleanser.py:27 input frame of clean_pipeline
    df_clean,         \* data_cleanser.py:35 cleansed frame returned by clean_pipeline
    cleansing_report, \* data_cleanser.py:114 report returned by clean_pipeline
    session_state,    \* app.py:33-41, 135, 170-173 st.session_state
    run_no,           \* number of analysis runs started in this session
    uploaded_files_list, \* app.py:84-92 the files of the run (name and parsed frame)
    written_by        \* history: the run that last wrote each session field (0: none)

vars == <<pc, df_enrol, df_demo, df_bio, files_count, district_data, ml_results,
          raised, df_raw, df_clean, cleansing_report, session_state, run_no,
          uploaded_files_list, written_by>>

None == [kind |-> "None"]
\* a float NaN: the rational with denominator 0
NaN == <<0, 0>>

-----------------------------------------------------------------------------
(* Exact rational arithmetic.                                              *)

Abs(n) == IF n < 0 THEN -n ELSE n

RECURSIVE GCD(_, _)
GCD(a, b) == IF b = 0 THEN a ELSE GCD(b, a % b)

Norm(n, d) ==
    LET g == GCD(Abs(n), Abs(d))
        s == IF d < 0 THEN -1 ELSE 1
    IN <<(s * n) \div g, (s * d) \div g>>

R(n) == <<n, 1>>
RAdd(a, b) == Norm(a[1] * b[2] + b[1] * a[2], a[2] * b[2])
RSub(a, b) == Norm(a[1] * b[2] - b[1] * a[2], a[2] * b[2])
RMul(a, b) == Norm(a[1] * b[1], a[2] * b[2])
RDiv(a, b) == Norm(a[1] * b[2], a[2] * b[1])
RLt(a, b) == a[1] * b[2] < b[1] * a[2]
RGt(a, b) == RLt(b, a)
RLe(a, b) == ~RLt(b, a)
RGe(a, b) == ~RLt(a, b)
RMin(a, b) == IF RLt(b, a) THEN b ELSE a
RAbs(a) == <<Abs(a[1]), a[2]>>

-----------------------------------------------------------------------------
(* Strings, cells, frames.                                                 *)

\* Python's `sub in s`
Contains(s, sub) ==
    \E i \in 1..(Len(s) - Len(sub) + 1) : SubSeq(s, i, i + Len(sub) - 1) = sub

LowerChar(c) ==
    CASE c = "A" -> "a" [] c = "B" -> "b" [] c = "C" -> "c" [] c = "D" -> "d"
      [] c = "E" -> "e" [] c = "F" -> "f" [] c = "G" -> "g" [] c = "H" -> "h"
      [] c = "I" -> "i" [] c = "J" -> "j" [] c = "K" -> "k" [] c = "L" -> "l"
      [] c = "M" -> "m" [] c = "N" -> "n" [] c = "O" -> "o" [] c = "P" -> "p"
      [] c = "Q" -> "q" [] c = "R" -> "r" [] c = "S" -> "s" [] c = "T" -> "t"
      [] c = "U" -> "u" [] c = "V" -> "v" [] c = "W" -> "w" [] c = "X" -> "x"
      [] c = "Y" -> "y" [] c = "Z" -> "z" [] OTHER -> c

\* Python's str.lower()
RECURSIVE Lower(_)
Lower(s) ==
    IF Len(s) = 0 THEN s
    ELSE LowerChar(SubSeq(s, 1, 1)) \o Lower(SubSeq(s, 2, Len(s)))

UpperChar(c) ==
    CASE c = "a" -> "A" [] c = "b" -> "B" [] c = "c" -> "C" [] c = "d" -> "D"
      [] c = "e" -> "E" [] c = "f" -> "F" [] c = "g" -> "G" [] c = "h" -> "H"
      [] c = "i" -> "I" [] c = "j" -> "J" [] c = "k" -> "K" [] c = "l" -> "L"
      [] c = "m" -> "M" [] c = "n" -> "N" [] c = "o" -> "O" [] c = "p" -> "P"
      [] c = "q" -> "Q" [] c = "r" -> "R" [] c = "s" -> "S" [] c = "t" -> "T"
      [] c = "u" -> "U" [] c = "v" -> "V" [] c = "w" -> "W" [] c = "x" -> "X"
      [] c = "y" -> "Y" [] c = "z" -> "Z" [] OTHER -> c

IsLetter(c) == LowerChar(c) # c \/ UpperChar(c) # c

\* Python's str.strip() (blanks only)
RECURSIVE Strip(_)
Strip(s) ==
    IF Len(s) = 0 THEN s
    ELSE IF SubSeq(s, 1, 1) = " " THEN Strip(SubSeq(s, 2, Len(s)))
    ELSE IF SubSeq(s, Len(s), Len(s)) = " " THEN Strip(SubSeq(s, 1, Len(s) - 1))
    ELSE s

\* Python's str.replace(old, new) for one-character old and new
RECURSIVE Replace(_, _, _)
Replace(s, old, new) ==
    IF Len(s) = 0 THEN s
    ELSE (IF SubSeq(s, 1, 1) = old THEN new ELSE SubSeq(s, 1, 1))
             \o Replace(SubSeq(s, 2, Len(s)), old, new)

\* Python's str.title(): a letter after a non-letter is upper-cased, the others lowered
RECURSIVE TitleFrom(_, _)
TitleFrom(s, afterLetter) ==
    IF Len(s) = 0 THEN s
    ELSE LET c == SubSeq(s, 1, 1)
         IN (IF afterLetter THEN LowerChar(c) ELSE UpperChar(c))
                \o TitleFrom(SubSeq(s, 2, Len(s)), IsLetter(c))

Title(s) == TitleFrom(s, FALSE)

\* the characters the model's strings use, in code-point order
Alphabet == " -0123456789ABCDEFGHIJKLMNOPQRSTUVWXYZ_abcdefghijklmnopqrstuvwxyz"

CharRank(c) == CHOOSE i \in 1..Len(Alphabet) : SubSeq(Alphabet, i, i) = c

\* Python's a < b on strings
RECURSIVE StrLess(_, _)
StrLess(a, b) ==
    IF Len(b) = 0 THEN FALSE
    ELSE IF Len(a) = 0 THEN TRUE
    ELSE IF SubSeq(a, 1, 1) = SubSeq(b, 1, 1)
         THEN StrLess(SubSeq(a, 2, Len(a)), SubSeq(b, 2, Len(b)))
         ELSE CharRank(SubSeq(a, 1, 1)) < CharRank(SubSeq(b, 1, 1))

\* A cell of a frame: a number, a string, or null (NaN / None).
Num(n) == [kind |-> "num", val |-> R(n)]
NumR(r) == [kind |-> "num", val |-> r]
Str(s) == [kind |-> "str", val |-> s]
Null == [kind |-> "null"]
IsNull(cell) == cell.kind = "null"

DigitVal(c) ==
    CASE c = "0" -> 0 [] c = "1" -> 1 [] c = "2" -> 2 [] c = "3" -> 3
      [] c = "4" -> 4 [] c = "5" -> 5 [] c = "6" -> 6 [] c = "7" -> 7
      [] c = "8" -> 8 [] c = "9" -> 9 [] OTHER -> -1

RECURSIVE ParseDigits(_, _)
ParseDigits(s, acc) ==
    IF Len(s) = 0 THEN acc
    ELSE LET dv == DigitVal(SubSeq(s, 1, 1))
         IN IF dv < 0 \/ acc < 0 THEN -1
            ELSE ParseDigits(SubSeq(s, 2, Len(s)), 10 * acc + dv)

\* pd.to_numeric(cell, errors='coerce'): a number, or NaN
to_numeric(cell) ==
    CASE cell.kind = "num" -> cell.val
      [] cell.kind = "str" ->
            IF Len(cell.val) > 0 /\ ParseDigits(cell.val, 0) >= 0
            THEN R(ParseDigits(cell.val, 0)) ELSE NaN
      [] OTHER -> NaN

\* A frame: [kind |-> "frame", columns |-> sequence of column names,
\*           dtypes |-> function column name -> "number" | "object" | "category",
\*           rows |-> sequence of functions column name -> cell]
HasColumn(df, c) == \E i \in 1..Len(df.columns) : df.columns[i] = c

Rep(row, n) == [i \in 1..n |-> row]

\* District names the model uses, in the order groupby sorts its keys.
DistrictOrder ==
    <<"Ahmednagar", "Akola", "Amravati", "Beed", "Dhule", "Jalgaon", "Kolhapur",
      "Latur", "Mumbai", "Nagpur", "Nashik", "Pune", "Satara", "Unknown">>


-----------------------------------------------------------------------------
(* utils/data_processing.py: the two aggregators.                          *)

\* pd.to_numeric(group[col], errors='coerce').sum() over rows lo..hi: NaN cells
\* are skipped (the range is halved to keep the evaluation shallow)
RECURSIVE SumRange(_, _, _, _)
SumRange(rows, col, lo, hi) ==
    IF lo > hi THEN R(0)
    ELSE IF lo = hi
         THEN LET v == to_numeric(rows[lo][col]) IN IF v = NaN THEN R(0) ELSE v
         ELSE LET mid == (lo + hi) \div 2
              IN RAdd(SumRange(rows, col, lo, mid), SumRange(rows, col, mid + 1, hi))

SumCol(rows, col) == SumRange(rows, col, 1, Len(rows))

\* df.groupby('district'): keys in sorted order, rows with a null key dropped
GroupKeys(df) ==
    SelectSeq(DistrictOrder,
              LAMBDA d : \E i \in 1..Len(df.rows) :
                            /\ df.rows[i]["district"].kind = "str"
                            /\ df.rows[i]["district"].val = d)

GroupRows(df, d) ==
    SelectSeq(df.rows, LAMBDA r : r["district"].kind = "str" /\ r["district"].val = d)

\* group.iloc[0].get('state', 'Unknown') if 'state' in group.columns else 'Unknown'
GroupState(df, group) ==
    IF HasColumn(df, "state")
    THEN group[1]["state"]
    ELSE Str("Unknown")

\* mutant: the quality score of the cleanser is not summed
ignore_cols_Mut == {"date", "state", "district", "pincode", "data quality score"}

ignore_cols == {"date", "state", "district", "pincode"}

\* the columns the aggregators sum
SummedCols(df) == SelectSeq(df.columns, LAMBDA c : Lower(c) \notin ignore_cols)

IsYouthCol(col) == Contains(col, "5") \/ Contains(col, "17")
\* mutant: the adult test is an `if` of its own
IsAdultCol_Mut(col) == Contains(col, "18") \/ Contains(Lower(col), "greater")

IsAdultCol(col) ==
    ~IsYouthCol(col) /\ (Contains(col, "18") \/ Contains(Lower(col), "greater"))

\* mutant: the total takes only the columns of an age bucket
InBucket_Mut(col, bucket) ==
    CASE bucket = "total" -> IsYouthCol(col) \/ IsAdultCol(col)
      [] bucket = "youth" -> IsYouthCol(col)
      [] bucket = "adult" -> IsAdultCol(col)

\* whether a column's sum is added to total / youth_total / adult_total
InBucket(col, bucket) ==
    CASE bucket = "total" -> TRUE
      [] bucket = "youth" -> IsYouthCol(col)
      [] bucket = "adult" -> IsAdultCol(col)

\* the sum of the column sums that the column loop adds to a bucket
RECURSIVE SumCols(_, _, _, _)
SumCols(rows, cols, bucket, i) ==
    IF i > Len(cols) THEN R(0)
    ELSE IF InBucket(cols[i], bucket)
         THEN RAdd(SumCol(rows, cols[i]), SumCols(rows, cols, bucket, i + 1))
         ELSE SumCols(rows, cols, bucket, i + 1)

\* mutant: the volume divided by 1000 instead of 10000
VolumeScore_Mut(total) == RMin(RDiv(total, R(1000)), R(40))

VolumeScore(total) == RMin(RDiv(total, R(10000)), R(40))

DemographicScore(youth_ratio) ==
    IF RGt(youth_ratio, R(60)) \/ RLt(youth_ratio, R(20)) THEN R(20) ELSE R(0)

\* mutant: the top band starts above 50 records
FrequencyScore_Mut(record_count) ==
    IF record_count > 50 THEN R(30) ELSE IF record_count > 25 THEN R(15) ELSE R(0)

FrequencyScore(record_count) ==
    IF record_count > 100 THEN R(30) ELSE IF record_count > 50 THEN R(15) ELSE R(0)

\* mutant: the CRITICAL boundary is not strict
RiskLevel_Mut(anomaly_score) ==
    IF RGe(anomaly_score, R(60)) THEN "CRITICAL"
    ELSE IF RGt(anomaly_score, R(30)) THEN "HIGH" ELSE "NORMAL"

RiskLevel(anomaly_score) ==
    IF RGt(anomaly_score, R(60)) THEN "CRITICAL"
    ELSE IF RGt(anomaly_score, R(30)) THEN "HIGH" ELSE "NORMAL"

\* one pass of the loop body of analyze_single_dataset
SingleRow(df, district, dtype) ==
    LET group == GroupRows(df, district)
        cols == SummedCols(df)
        total == SumCols(group, cols, "total", 1)
        youth_total == SumCols(group, cols, "youth", 1)
        adult_total == SumCols(group, cols, "adult", 1)
        record_count == Len(group)
        avg_per_record == IF record_count > 0 THEN RDiv(total, R(record_count)) ELSE R(0)
        youth_ratio == IF RGt(total, R(0))
                       THEN RMul(RDiv(youth_total, total), R(100)) ELSE R(0)
        volume_score == VolumeScore(total)
        demographic_score == DemographicScore(youth_ratio)
        frequency_score == FrequencyScore(record_count)
        anomaly_score == RAdd(RAdd(volume_score, demographic_score), frequency_score)
    IN [district |-> district,
        state |-> GroupState(df, group),
        total_updates |-> total,
        youth_updates |-> youth_total,
        adult_updates |-> adult_total,
        record_count |-> record_count,
        avg_per_record |-> avg_per_record,
        youth_ratio |-> youth_ratio,
        anomaly_score |-> anomaly_score,
        risk_level |-> RiskLevel(anomaly_score),
        dataset_type |-> dtype]

\* insert row x into a sequence sorted by anomaly_score, descending, after its equals
RECURSIVE InsertDesc(_, _)
InsertDesc(sorted, x) ==
    IF Len(sorted) = 0 THEN <<x>>
    ELSE IF RGt(x.anomaly_score, sorted[1].anomaly_score)
         THEN <<x>> \o sorted
         ELSE <<sorted[1]>> \o InsertDesc(Tail(sorted), x)

RECURSIVE SortDesc(_, _)
SortDesc(rows, i) ==
    IF i = 0 THEN <<>> ELSE InsertDesc(SortDesc(rows, i - 1), rows[i])

\* mutant: the rows stay in the order they were appended
sort_values_Mut(results) ==
    IF Len(results) = 0 THEN [ret |-> None, exc |-> "KeyError"]
    ELSE [ret |-> [kind |-> "table", rows |-> results], exc |-> "none"]

\* mutant: rows of equal score come out in an order that changes from one run
\* to the next
sort_values_Unstable(results) ==
    IF Len(results) = 0 THEN [ret |-> None, exc |-> "KeyError"]
    ELSE LET reversed == [i \in 1..Len(results) |-> results[Len(results) + 1 - i]]
         IN [ret |-> [kind |-> "table",
                      rows |-> IF run_no % 2 = 1 THEN SortDesc(reversed, Len(results))
                               ELSE SortDesc(results, Len(results))],
             exc |-> "none"]

\* pd.DataFrame(results).sort_values('anomaly_score', ascending=False):
\* a frame built from no rows has no columns, and sort_values raises KeyError
sort_values(results) ==
    IF Len(results) = 0 THEN [ret |-> None, exc |-> "KeyError"]
    ELSE [ret |-> [kind |-> "table", rows |-> SortDesc(results, Len(results))],
          exc |-> "none"]

analyze_single_dataset(df, dtype) ==
    IF ~HasColumn(df, "district") THEN [ret |-> None, exc |-> "none"]
    ELSE LET keys == GroupKeys(df)
             results == [k \in 1..Len(keys) |-> SingleRow(df, keys[k], dtype)]
         IN sort_values(results)


\* index of district d in the insertion-ordered district_map, 0 if absent
MapIndex(district_map, d) ==
    IF \E i \in 1..Len(district_map) : district_map[i].district = d
    THEN CHOOSE i \in 1..Len(district_map) : district_map[i].district = d
    ELSE 0

\* `if district not in district_map`: the entry a district is seeded with
SeedGroup(df, d) ==
    [district |-> d, state |-> GroupState(df, GroupRows(df, d)),
     enrol_total |-> R(0), demo_total |-> R(0), bio_total |-> R(0)]

\* mutant: the sums of a biometric frame are added to demo_total
AddGroup_Mut(entry, df, dtype) ==
    LET col_sums == SumCols(GroupRows(df, entry.district), SummedCols(df), "total", 1)
    IN CASE dtype = "enrol" -> [entry EXCEPT !.enrol_total = RAdd(@, col_sums)]
         [] dtype = "demo" -> [entry EXCEPT !.demo_total = RAdd(@, col_sums)]
         [] dtype = "bio" -> [entry EXCEPT !.demo_total = RAdd(@, col_sums)]

\* the column loop of one group: its column sums are added to the total of dtype
AddGroup(entry, df, dtype) ==
    LET col_sums == SumCols(GroupRows(df, entry.district), SummedCols(df), "total", 1)
    IN CASE dtype = "enrol" -> [entry EXCEPT !.enrol_total = RAdd(@, col_sums)]
         [] dtype = "demo" -> [entry EXCEPT !.demo_total = RAdd(@, col_sums)]
         [] dtype = "bio" -> [entry EXCEPT !.bio_total = RAdd(@, col_sums)]

\* `for district, group in grouped`: each group key occurs once, so the loop
\* appends the unseen districts in key order and adds to the entry of every key
AddGroups(district_map, df, dtype) ==
    LET keys == GroupKeys(df)
        unseen == SelectSeq(keys, LAMBDA d : MapIndex(district_map, d) = 0)
        seeded == district_map \o [k \in 1..Len(unseen) |-> SeedGroup(df, unseen[k])]
    IN [i \in 1..Len(seeded) |->
           IF \E k \in 1..Len(keys) : keys[k] = seeded[i].district
           THEN AddGroup(seeded[i], df, dtype)
           ELSE seeded[i]]

\* the body of `for df, dtype in datasets`
AddFrame(district_map, df, dtype) ==
    IF df = None THEN district_map
    ELSE IF ~HasColumn(df, "district") THEN district_map
    ELSE AddGroups(district_map, df, dtype)

\* mutant: the fallback of the compliance rate is 0
ComplianceRate_Mut(demo_total, bio_total) ==
    IF RGt(demo_total, R(0)) THEN RMul(RDiv(bio_total, demo_total), R(100)) ELSE R(0)

ComplianceRate(demo_total, bio_total) ==
    IF RGt(demo_total, R(0)) THEN RMul(RDiv(bio_total, demo_total), R(100)) ELSE R(100)

MigrationIndex(demo_total, enrol_total) ==
    IF RGt(enrol_total, R(0)) THEN RDiv(demo_total, enrol_total) ELSE R(0)

\* mutant: the compliance bands are not exclusive (`if` for `elif`)
MultiScore_Mut(gap, compliance_rate, migration_index) ==
    LET s1 == IF RGt(gap, R(0)) THEN RMin(RDiv(gap, R(1000)), R(50)) ELSE R(0)
        s2 == IF RLt(compliance_rate, R(50)) THEN RAdd(s1, R(30)) ELSE s1
        s3 == IF RLt(compliance_rate, R(80)) THEN RAdd(s2, R(15)) ELSE s2
    IN IF RGt(migration_index, R(2)) THEN RAdd(s3, R(20)) ELSE s3

\* mutant: the gap term has no cap
MultiScore_NoCap(gap, compliance_rate, migration_index) ==
    LET s1 == IF RGt(gap, R(0)) THEN RDiv(gap, R(1000)) ELSE R(0)
        s2 == IF RLt(compliance_rate, R(50)) THEN RAdd(s1, R(30))
              ELSE IF RLt(compliance_rate, R(80)) THEN RAdd(s1, R(15)) ELSE s1
    IN IF RGt(migration_index, R(2)) THEN RAdd(s2, R(20)) ELSE s2

MultiScore(gap, compliance_rate, migration_index) ==
    LET s1 == IF RGt(gap, R(0)) THEN RMin(RDiv(gap, R(1000)), R(50)) ELSE R(0)
        s2 == IF RLt(compliance_rate, R(50)) THEN RAdd(s1, R(30))
              ELSE IF RLt(compliance_rate, R(80)) THEN RAdd(s1, R(15)) ELSE s1
    IN IF RGt(migration_index, R(2)) THEN RAdd(s2, R(20)) ELSE s2

\* one pass of `for district, data in district_map.items()`
MultiRow(data) ==
    LET gap == RSub(data.demo_total, data.bio_total)
        compliance_rate == ComplianceRate(data.demo_total, data.bio_total)
        migration_index == MigrationIndex(data.demo_total, data.enrol_total)
        anomaly_score == MultiScore(gap, compliance_rate, migration_index)
    IN [district |-> data.district,
        state |-> data.state,
        enrol_total |-> data.enrol_total,
        demo_total |-> data.demo_total,
        bio_total |-> data.bio_total,
        gap |-> gap,
        gap_abs |-> RAbs(gap),
        compliance_rate |-> compliance_rate,
        migration_index |-> migration_index,
        anomaly_score |-> anomaly_score,
        risk_level |-> RiskLevel(anomaly_score)]

analyze_multiple_datasets(enrol_df, demo_df, bio_df) ==
    LET m1 == AddFrame(<<>>, enrol_df, "enrol")
        m2 == AddFrame(m1, demo_df, "demo")
        district_map == AddFrame(m2, bio_df, "bio")
        results == [k \in 1..Len(district_map) |-> MultiRow(district_map[k])]
    IN sort_values(results)


-----------------------------------------------------------------------------
(* app.py:33-41: the session state before any run.                         *)

SessionInit ==
    [data_processed |-> FALSE, district_data |-> None, ml_results |-> None,
     cleansing_report |-> None, files_count |-> None]

\* no run has written a session field yet
NotWritten ==
    [data_processed |-> 0, district_data |-> 0, ml_results |-> 0,
     cleansing_report |-> 0, files_count |-> 0]

-----------------------------------------------------------------------------
(* Input frames of the aggregators.                                        *)

AggCols == <<"state", "district", "age_5_17", "age_18_greater">>

AggRow(d, y, a) ==
    ("state" :> Str("Maharashtra")) @@ ("district" :> Str(d))
        @@ ("age_5_17" :> Num(y)) @@ ("age_18_greater" :> Num(a))

\* nP rows of Pune with the given counts, then nN rows of Nashik
AggFrame(nP, y, a, nN) ==
    [kind |-> "frame", columns |-> AggCols,
     dtypes |-> ("state" :> "object") @@ ("district" :> "object")
                   @@ ("age_5_17" :> "number") @@ ("age_18_greater" :> "number"),
     rows |-> Rep(AggRow("Pune", y, a), nP) \o Rep(AggRow("Nashik", 10, 30), nN)]

\* a frame without a district column
NoDistrictFrame ==
    [kind |-> "frame", columns |-> <<"state", "age_5_17">>,
     dtypes |-> ("state" :> "object") @@ ("age_5_17" :> "number"),
     rows |-> <<("state" :> Str("Maharashtra")) @@ ("age_5_17" :> Num(100))>>]

PuneCounts == {0, 50, 51, 60, 100, 101}
NashikCounts == {0, 5}
\* <<age_5_17, age_18_greater>> of a Pune row
PuneValues == {<<100, 300>>, <<0, 0>>, <<200, 800>>, <<600, 400>>, <<700, 300>>,
               <<2500, 0>>, <<500, 1000>>, <<2500, 2500>>}

WideCols == <<"State", "district", "Pincode", "DATE", "age_5_17", "age_18_greater", "other">>

WideRow(d, y, a, o) ==
    ("State" :> Str("Maharashtra")) @@ ("district" :> Str(d))
        @@ ("Pincode" :> Num(411001)) @@ ("DATE" :> Str("20240101"))
        @@ ("age_5_17" :> y) @@ ("age_18_greater" :> a) @@ ("other" :> o)

\* two rows of Pune and one of Nashik, with excluded columns in other cases, a
\* column outside the age buckets, and cells that are text, empty or negative
WideFrame(y, a, o) ==
    [kind |-> "frame", columns |-> WideCols,
     dtypes |-> [c \in {WideCols[i] : i \in 1..Len(WideCols)} |->
                    IF c \in {"State", "district", "DATE"} THEN "object" ELSE "number"],
     rows |-> <<WideRow("Pune", Num(100), a, o), WideRow("Pune", y, Num(0), Num(7)),
                WideRow("Nashik", Num(10), Num(30), Num(0))>>]

WideFrames ==
    {WideFrame(y, a, o) :
        y \in {Num(50), Str("n/a"), Null},
        a \in {Num(300), Num(-50), Num(-157), Num(-500)},
        o \in {Num(7), Str("abc"), Str("12"), Null}}

BothCols == <<"district", "age_5_18", "age_17_greater", "AGE_GREATER", "count">>

BothRow(d, y, g, a, c) ==
    ("district" :> Str(d)) @@ ("age_5_18" :> y) @@ ("age_17_greater" :> g)
        @@ ("AGE_GREATER" :> a) @@ ("count" :> c)

\* two rows of Pune and one of Nashik, with two columns whose names match the
\* youth and the adult patterns, one matching only the adult pattern in upper
\* case and one matching neither
BothFrame(y, a) ==
    [kind |-> "frame", columns |-> BothCols,
     dtypes |-> [c \in {BothCols[i] : i \in 1..Len(BothCols)} |->
                    IF c = "district" THEN "object" ELSE "number"],
     rows |-> <<BothRow("Pune", y, Num(30), a, Num(5)),
                BothRow("Pune", Num(10), Num(0), Num(20), Num(0)),
                BothRow("Nashik", Num(1), Num(2), Num(3), Num(4))>>]

BothFrames ==
    {BothFrame(y, a) : y \in {Num(40), Num(0), Str("n/a")}, a \in {Num(25), Num(0), Num(-100)}}

SingleFrames ==
    {AggFrame(nP, v[1], v[2], nN) : nP \in PuneCounts, v \in PuneValues, nN \in NashikCounts}
        \cup WideFrames \cup BothFrames \cup {NoDistrictFrame}

EnrolTotals == {-200, 0, 200, 250, 1000}
DemoTotals == {-500, 0, 500, 15000, 50000, 70000}
BioTotals == {0, 100, 250, 400, 600, 5000, 35000}

\* one Pune row whose summed columns total v, and nN Nashik rows
MultiFrame(v, nN) == AggFrame(1, 0, v, nN)

\* a Pune row and a Nagpur row of another state
OtherStateFrame ==
    [kind |-> "frame", columns |-> AggCols,
     dtypes |-> ("state" :> "object") @@ ("district" :> "object")
                   @@ ("age_5_17" :> "number") @@ ("age_18_greater" :> "number"),
     rows |-> <<("state" :> Str("Goa")) @@ ("district" :> Str("Pune"))
                   @@ ("age_5_17" :> Num(0)) @@ ("age_18_greater" :> Num(500)),
                ("state" :> Str("Goa")) @@ ("district" :> Str("Nagpur"))
                   @@ ("age_5_17" :> Num(15)) @@ ("age_18_greater" :> Num(25))>>]

\* a Nagpur row and a Pune row of a frame without a state column
NoStateFrame ==
    [kind |-> "frame", columns |-> <<"district", "count">>,
     dtypes |-> ("district" :> "object") @@ ("count" :> "number"),
     rows |-> <<("district" :> Str("Nagpur")) @@ ("count" :> Num(60)),
                ("district" :> Str("Pune")) @@ ("count" :> Num(250))>>]

EnrolFrames == {MultiFrame(v, 0) : v \in EnrolTotals} \cup {None, NoDistrictFrame}
DemoFrames == {MultiFrame(v, 1) : v \in DemoTotals} \cup {None, OtherStateFrame}
BioFrames ==
    {MultiFrame(v, 0) : v \in BioTotals} \cup {None, AggFrame(0, 0, 0, 0), NoStateFrame}

Slot(dtype) ==
    CASE dtype = "enrol" -> df_enrol [] dtype = "demo" -> df_demo [] dtype = "bio" -> df_bio

InitAgg ==
    /\ pc = "start"
    /\ \/ \E f \in SingleFrames, dtype \in {"enrol", "demo", "bio"} :
             /\ df_enrol = IF dtype = "enrol" THEN f ELSE None
             /\ df_demo = IF dtype = "demo" THEN f ELSE None
             /\ df_bio = IF dtype = "bio" THEN f ELSE None
             /\ files_count = 1
       \/ /\ df_enrol \in EnrolFrames
          /\ df_demo \in DemoFrames
          /\ df_bio \in BioFrames
          /\ files_count = 3
    /\ district_data = None
    /\ ml_results = None
    /\ raised = "none"
    /\ df_raw = None
    /\ df_clean = None
    /\ cleansing_report = None
    /\ session_state = SessionInit
    /\ run_no = 0
    /\ uploaded_files_list = <<>>
    /\ written_by = NotWritten

\* a call analyze_single_dataset(df, dtype) on one of the frames
CallAnalyzeSingle ==
    /\ pc = "start"
    /\ \E dtype \in {"enrol", "demo", "bio"} :
          /\ Slot(dtype) # None
          /\ LET r == analyze_single_dataset(Slot(dtype), dtype)
             IN /\ district_data' = r.ret
                /\ raised' = r.exc
    /\ pc' = "single_done"
    /\ UNCHANGED <<df_enrol, df_demo, df_bio, files_count, ml_results, df_raw,
                   df_clean, cleansing_report, session_state, run_no,
                   uploaded_files_list, written_by>>

\* a call analyze_multiple_datasets(df_enrol, df_demo, df_bio)
CallAnalyzeMultiple ==
    /\ pc = "start"
    /\ LET r == analyze_multiple_datasets(df_enrol, df_demo, df_bio)
       IN /\ district_data' = r.ret
          /\ raised' = r.exc
    /\ pc' = "multi_done"
    /\ UNCHANGED <<df_enrol, df_demo, df_bio, files_count, ml_results, df_raw,
                   df_clean, cleansing_report, session_state, run_no,
                   uploaded_files_list, written_by>>

NextAgg == CallAnalyzeSingle \/ CallAnalyzeMultiple

SpecAgg == InitAgg /\ [][NextAgg]_vars


-----------------------------------------------------------------------------
(* Claims about the aggregators, checked under SpecAgg.                    *)

IsTable(t) == t.kind = "table"

TableRows(t) == IF IsTable(t) THEN {t.rows[i] : i \in 1..Len(t.rows)} ELSE {}

AggDone == pc \in {"single_done", "multi_done"}

\* C1: in every table either aggregator returns, risk_level is decided by
\* anomaly_score alone: CRITICAL iff score > 60, HIGH iff 30 < score <= 60,
\* NORMAL iff score <= 30.
C1_RiskTierByScore ==
    AggDone =>
        \A r \in TableRows(district_data) :
            LET n == r.anomaly_score[1]
                d == r.anomaly_score[2]
            IN /\ r.risk_level \in {"NORMAL", "HIGH", "CRITICAL"}
               /\ (r.risk_level = "CRITICAL") <=> (n > 60 * d)
               /\ (r.risk_level = "HIGH") <=> (n > 30 * d /\ n <= 60 * d)
               /\ (r.risk_level = "NORMAL") <=> (n <= 30 * d)

\* a table holding a row whose score is exactly 60 (HIGH) and the call was
\* analyze_single_dataset
C1_Witness ==
    /\ pc = "single_done"
    /\ \E r \in TableRows(district_data) : r.anomaly_score = R(60) /\ r.risk_level = "HIGH"

\* the example of the spec: 60 rows of Pune (100, 300) and 5 rows of Nashik
ExampleFrame == AggFrame(60, 100, 300, 5)

ExampleAnalysed ==
    /\ pc = "single_done"
    /\ IsTable(district_data)
    /\ \E dtype \in {"enrol", "demo", "bio"} :
          Slot(dtype) = ExampleFrame /\ district_data.rows[1].dataset_type = dtype

PuneCounts4(r) ==
    /\ r.total_updates = R(24000)
    /\ r.youth_updates = R(6000)
    /\ r.youth_ratio = R(25)
    /\ r.record_count = 60

\* C4 as stated: the example frame gives Pune anomaly_score 32.4 and HIGH
C4_Original ==
    ExampleAnalysed =>
        \E r \in TableRows(district_data) :
            /\ r.district = "Pune"
            /\ PuneCounts4(r)
            /\ r.anomaly_score = Norm(324, 10)
            /\ r.risk_level = "HIGH"

\* C4 (amended): analyze_single_dataset on the example frame gives Pune
\* total_updates 24000, youth_updates 6000, youth_ratio 25, record_count 60,
\* and, with frequency_score 15 (60 is not above 100), volume_score 2.4 and
\* demographic_score 0, anomaly_score 17.4 and risk_level NORMAL.
C4_ExampleAmended ==
    ExampleAnalysed =>
        \E r \in TableRows(district_data) :
            /\ r.district = "Pune"
            /\ PuneCounts4(r)
            /\ r.anomaly_score = Norm(174, 10)
            /\ r.anomaly_score = RAdd(RAdd(Norm(24, 10), R(0)), R(15))
            /\ r.risk_level = "NORMAL"

C4_Witness ==
    ExampleAnalysed /\ \E r \in TableRows(district_data) : r.district = "Pune"

\* number of rows of frame df whose district is d
RowsOf(df, d) ==
    Cardinality({i \in 1..Len(df.rows) :
                    df.rows[i]["district"].kind = "str" /\ df.rows[i]["district"].val = d})

\* C5: after analyze_single_dataset every district's anomaly_score is
\* min(total_updates / 10000, 40) + (20 if youth_ratio > 60 or < 20) +
\* (30 if record_count > 100, 15 if record_count > 50), record_count being the
\* number of rows of the district in the input.
C5_SingleScore ==
    pc = "single_done" =>
        \A r \in TableRows(district_data) :
            LET t == r.total_updates
                vol == IF t[1] < 400000 * t[2] THEN <<t[1], 10000 * t[2]>> ELSE <<40, 1>>
                dem == IF r.youth_ratio[1] > 60 * r.youth_ratio[2]
                          \/ r.youth_ratio[1] < 20 * r.youth_ratio[2]
                       THEN 20 ELSE 0
                frq == IF r.record_count > 100 THEN 30
                       ELSE IF r.record_count > 50 THEN 15 ELSE 0
            IN /\ r.record_count = RowsOf(Slot(r.dataset_type), r.district)
               /\ r.anomaly_score[1] * vol[2]
                     = (vol[1] + (dem + frq) * vol[2]) * r.anomaly_score[2]

\* a district with more than 100 rows, a youth ratio above 60 and an uncapped
\* volume score, and one with 51..100 rows
C5_Witness ==
    /\ pc = "single_done"
    /\ \E r \in TableRows(district_data) :
          /\ r.record_count > 100
          /\ RGt(r.youth_ratio, R(60))
          /\ RLt(r.total_updates, R(400000))
          /\ r.anomaly_score = RAdd(RDiv(r.total_updates, R(10000)), R(50))

ExcludedNames == {"date", "state", "district", "pincode"}

\* the numeric value of a cell, zero for text that is no number and for an
\* empty cell
CellValue(cell) ==
    IF cell.kind = "num" THEN cell.val
    ELSE IF cell.kind = "str" /\ to_numeric(cell) # NaN THEN to_numeric(cell)
    ELSE R(0)

RECURSIVE RowValue(_, _, _)
RowValue(row, cols, i) ==
    IF i > Len(cols) THEN R(0)
    ELSE RAdd(IF Lower(cols[i]) \in ExcludedNames THEN R(0) ELSE CellValue(row[cols[i]]),
              RowValue(row, cols, i + 1))

\* the sum of RowValue over the rows lo..hi of df that belong to district d
RECURSIVE DistrictValue(_, _, _, _)
DistrictValue(df, d, lo, hi) ==
    IF lo > hi THEN R(0)
    ELSE IF lo = hi
         THEN IF df.rows[lo]["district"] = Str(d)
              THEN RowValue(df.rows[lo], df.columns, 1) ELSE R(0)
         ELSE LET mid == (lo + hi) \div 2
              IN RAdd(DistrictValue(df, d, lo, mid), DistrictValue(df, d, mid + 1, hi))

\* C15: after analyze_single_dataset a district's total_updates is the sum of the
\* numeric values of its rows over every column other than date, state, district,
\* pincode (in any case), cells that are no number counting zero, whether or not
\* the column matches an age bucket.
C15_TotalOverAllColumns ==
    pc = "single_done" =>
        \A r \in TableRows(district_data) :
            LET df == Slot(r.dataset_type)
            IN r.total_updates = DistrictValue(df, r.district, 1, Len(df.rows))

\* a district whose rows hold a number outside the age buckets, a text cell and
\* excluded columns written in other cases
C15_Witness ==
    /\ pc = "single_done"
    /\ \E dtype \in {"enrol", "demo", "bio"} :
          /\ Slot(dtype) = WideFrame(Str("n/a"), Num(300), Str("12"))
          /\ \E r \in TableRows(district_data) :
                r.district = "Pune" /\ r.dataset_type = dtype /\ r.total_updates = R(419)

\* C16 as stated: youth_ratio is youth_updates / total_updates * 100 and lies in
\* [0, 100] when total_updates > 0, and is 0 when total_updates = 0.
C16_Original ==
    pc = "single_done" =>
        \A r \in TableRows(district_data) :
            /\ RGt(r.total_updates, R(0)) =>
                  /\ r.youth_ratio = RMul(RDiv(r.youth_updates, r.total_updates), R(100))
                  /\ RGe(r.youth_ratio, R(0))
                  /\ RLe(r.youth_ratio, R(100))
            /\ r.total_updates = R(0) => r.youth_ratio = R(0)

\* C6: after analyze_multiple_datasets every district has gap = demo_total -
\* bio_total, gap_abs = |gap| and anomaly_score = (min(gap / 1000, 50) if gap > 0)
\* + (30 if compliance_rate < 50, else 15 if compliance_rate < 80) + (20 if
\* migration_index > 2); enrol 1000, demo 500, bio 100 gives gap 400, compliance
\* 20, migration 0.5, score 30.4 and HIGH.
C6_MultiScore ==
    pc = "multi_done" =>
        \A r \in TableRows(district_data) :
            LET g == r.gap
                gs == IF g[1] <= 0 THEN <<0, 1>>
                      ELSE IF g[1] < 50000 * g[2] THEN <<g[1], 1000 * g[2]>>
                      ELSE <<50, 1>>
                cs == IF r.compliance_rate[1] < 50 * r.compliance_rate[2] THEN 30
                      ELSE IF r.compliance_rate[1] < 80 * r.compliance_rate[2] THEN 15
                      ELSE 0
                ms == IF r.migration_index[1] > 2 * r.migration_index[2] THEN 20 ELSE 0
            IN /\ g[1] * r.demo_total[2] * r.bio_total[2]
                     = (r.demo_total[1] * r.bio_total[2] - r.bio_total[1] * r.demo_total[2])
                          * g[2]
               /\ r.gap_abs = <<Abs(g[1]), g[2]>>
               /\ r.anomaly_score[1] * gs[2]
                     = (gs[1] + (cs + ms) * gs[2]) * r.anomaly_score[2]
               /\ (r.enrol_total = R(1000) /\ r.demo_total = R(500) /\ r.bio_total = R(100))
                     => /\ r.gap = R(400)
                        /\ r.gap_abs = R(400)
                        /\ r.compliance_rate = R(20)
                        /\ r.migration_index = Norm(1, 2)
                        /\ r.anomaly_score = Norm(304, 10)
                        /\ r.risk_level = "HIGH"

\* the example row of the spec is produced
C6_Witness ==
    /\ pc = "multi_done"
    /\ \E r \in TableRows(district_data) :
          r.enrol_total = R(1000) /\ r.demo_total = R(500) /\ r.bio_total = R(100)


\* whether value is the quotient num / den (den # 0)
IsQuotient(value, num, den) == value[1] * den[1] * num[2] = value[2] * num[1] * den[2]

FrameHas(df, d) ==
    /\ df # None
    /\ HasColumn(df, "district")
    /\ \E i \in 1..Len(df.rows) : df.rows[i]["district"] = Str(d)

\* the sum of a frame's own values for district d, 0 for a frame that is absent
\* or has no district column
CategoryTotal(df, d) ==
    IF df = None THEN R(0)
    ELSE IF ~HasColumn(df, "district") THEN R(0)
    ELSE DistrictValue(df, d, 1, Len(df.rows))

\* the state of the first row of district d in a frame, "Unknown" without a
\* state column
FirstState(df, d) ==
    LET first == CHOOSE i \in 1..Len(df.rows) :
                    /\ df.rows[i]["district"] = Str(d)
                    /\ \A j \in 1..(i - 1) : df.rows[j]["district"] # Str(d)
    IN IF HasColumn(df, "state") THEN df.rows[first]["state"] ELSE Str("Unknown")

\* the state seeded by the first frame, in enrol, demo, bio order, that holds d
SeededState(d) ==
    IF FrameHas(df_enrol, d) THEN FirstState(df_enrol, d)
    ELSE IF FrameHas(df_demo, d) THEN FirstState(df_demo, d)
    ELSE FirstState(df_bio, d)

\* every row of the multi-dataset table has the category totals of its own
\* frames and the state of the first frame that holds its district
OwnTotalsAndState ==
    \A r \in TableRows(district_data) :
        /\ r.enrol_total = CategoryTotal(df_enrol, r.district)
        /\ r.demo_total = CategoryTotal(df_demo, r.district)
        /\ r.bio_total = CategoryTotal(df_bio, r.district)
        /\ r.state = SeededState(r.district)

\* whether some frame contributes a district
SomeDistrict ==
    \E d \in {DistrictOrder[i] : i \in 1..Len(DistrictOrder)} :
        FrameHas(df_enrol, d) \/ FrameHas(df_demo, d) \/ FrameHas(df_bio, d)

\* C21 as stated: a call with an absent frame or one without a district column
\* raises no error, and each category total is the sum of its own frame.
C21_Original ==
    pc = "multi_done" => raised = "none" /\ OwnTotalsAndState

\* C21 amended: each category total is the sum of its own frame's columns, 0
\* for a frame that is absent or has no district column, the state is the one
\* of the first frame holding the district, and the call raises no error when
\* some frame holds a district; when none does it raises KeyError.
C21_Amended ==
    pc = "multi_done" =>
        /\ OwnTotalsAndState
        /\ SomeDistrict => raised = "none" /\ IsTable(district_data)
        /\ ~SomeDistrict => raised = "KeyError"
        /\ \A d \in {DistrictOrder[i] : i \in 1..Len(DistrictOrder)} :
              (FrameHas(df_enrol, d) \/ FrameHas(df_demo, d) \/ FrameHas(df_bio, d))
                  <=> \E r \in TableRows(district_data) : r.district = d

\* no enrollment frame, a demographic frame of another state and a biometric
\* frame without a state column: Pune and Nagpur keep the demographic frame's
\* state and have enrol_total 0
C21_Witness ==
    /\ pc = "multi_done"
    /\ df_enrol \in {None, NoDistrictFrame}
    /\ df_demo = OtherStateFrame
    /\ df_bio = NoStateFrame
    /\ \E r \in TableRows(district_data) :
          /\ r.district = "Nagpur"
          /\ r.state = Str("Goa")
          /\ r.enrol_total = R(0)
          /\ r.demo_total = R(40)
          /\ r.bio_total = R(60)

\* the numeric value of a row over the non-excluded columns in the set S
RECURSIVE RowValueIn(_, _, _, _)
RowValueIn(row, cols, S, i) ==
    IF i > Len(cols) THEN R(0)
    ELSE RAdd(IF Lower(cols[i]) \notin ExcludedNames /\ cols[i] \in S
              THEN CellValue(row[cols[i]]) ELSE R(0),
              RowValueIn(row, cols, S, i + 1))

\* the sum of RowValueIn over the rows lo..hi of df that belong to district d
RECURSIVE DistrictValueIn(_, _, _, _, _)
DistrictValueIn(df, d, S, lo, hi) ==
    IF lo > hi THEN R(0)
    ELSE IF lo = hi
         THEN IF df.rows[lo]["district"] = Str(d)
              THEN RowValueIn(df.rows[lo], df.columns, S, 1) ELSE R(0)
         ELSE LET mid == (lo + hi) \div 2
              IN RAdd(DistrictValueIn(df, d, S, lo, mid),
                      DistrictValueIn(df, d, S, mid + 1, hi))

\* the columns whose name contains '5' or '17'
YouthNames(df) ==
    {df.columns[i] : i \in {j \in 1..Len(df.columns) :
        Contains(df.columns[j], "5") \/ Contains(df.columns[j], "17")}}

\* the other columns whose name contains '18' or, in any case, 'greater'
AdultNames(df) ==
    {df.columns[i] : i \in {j \in 1..Len(df.columns) :
        Contains(df.columns[j], "18") \/ Contains(Lower(df.columns[j]), "greater")}}
        \ YouthNames(df)

\* no row of district d holds a negative number
NonNegative(df, d) ==
    \A i \in 1..Len(df.rows) :
        df.rows[i]["district"] = Str(d) =>
            \A c \in DOMAIN df.rows[i] :
                Lower(c) \notin ExcludedNames => RGe(CellValue(df.rows[i][c]), R(0))

\* C24: after analyze_single_dataset a district's youth_updates is the sum of
\* the columns whose name contains '5' or '17', its adult_updates the sum of the
\* remaining columns whose name contains '18' or 'greater', so that no column
\* is added to both, and for non-negative inputs youth_updates + adult_updates
\* is at most total_updates.
C24_OneBucketPerColumn ==
    pc = "single_done" =>
        \A r \in TableRows(district_data) :
            LET df == Slot(r.dataset_type)
                n == Len(df.rows)
            IN /\ r.youth_updates = DistrictValueIn(df, r.district, YouthNames(df), 1, n)
               /\ r.adult_updates = DistrictValueIn(df, r.district, AdultNames(df), 1, n)
               /\ NonNegative(df, r.district)
                     => RLe(RAdd(r.youth_updates, r.adult_updates), r.total_updates)

\* a district of a frame with the columns age_5_18 and age_17_greater, which
\* match both patterns: both are youth, AGE_GREATER alone is adult
C24_Witness ==
    /\ pc = "single_done"
    /\ \E dtype \in {"enrol", "demo", "bio"} :
          /\ Slot(dtype) = BothFrame(Num(40), Num(25))
          /\ \E r \in TableRows(district_data) :
                /\ r.district = "Pune"
                /\ r.youth_updates = R(80)
                /\ r.adult_updates = R(45)
                /\ r.total_updates = R(130)

\* the three category totals of a row are non-negative
NonNegativeTotals(r) ==
    RGe(r.enrol_total, R(0)) /\ RGe(r.demo_total, R(0)) /\ RGe(r.bio_total, R(0))

\* C29: in a multi-dataset table a district with non-negative totals and
\* gap <= 0 has compliance_rate >= 100, anomaly_score 0 or 20 and risk_level
\* NORMAL; a district with non-negative totals and compliance_rate < 80 has
\* gap > 0; and the anomaly_score of a district with non-negative totals is
\* in [0, 100].
C29_PenaltyOnlyWithGap ==
    pc = "multi_done" =>
        \A r \in TableRows(district_data) :
            NonNegativeTotals(r) =>
                /\ RLe(r.gap, R(0)) =>
                      /\ RGe(r.compliance_rate, R(100))
                      /\ r.anomaly_score \in {R(0), R(20)}
                      /\ r.risk_level = "NORMAL"
                /\ RLt(r.compliance_rate, R(80)) => RGt(r.gap, R(0))
                /\ RGe(r.anomaly_score, R(0))
                /\ RLe(r.anomaly_score, R(100))

\* a district whose biometric total exceeds its demographic total and whose
\* migration index exceeds 2: score 20, NORMAL
C29_Witness ==
    /\ pc = "multi_done"
    /\ \E r \in TableRows(district_data) :
          /\ r.enrol_total = R(200) /\ r.demo_total = R(500) /\ r.bio_total = R(600)
          /\ r.anomaly_score = R(20)
          /\ r.risk_level = "NORMAL"

-----------------------------------------------------------------------------
(* data_cleanser.py: SentinelDataCleanser.clean_pipeline.                  *)

ColSet(df) == {df.columns[i] : i \in 1..Len(df.columns)}

RowIdx(df) == 1..Len(df.rows)

\* Stage 1: c.strip().lower().replace(' ', '_').replace('-', '_')
StdColName(c) == Replace(Replace(Lower(Strip(c)), " ", "_"), "-", "_")

StandardizeColumns(df) ==
    LET new == [i \in 1..Len(df.columns) |-> StdColName(df.columns[i])]
        names == {new[i] : i \in 1..Len(new)}
        old(nc) == df.columns[CHOOSE i \in 1..Len(new) : new[i] = nc]
    IN [kind |-> "frame", columns |-> new,
        dtypes |-> [nc \in names |-> df.dtypes[old(nc)]],
        rows |-> [r \in RowIdx(df) |-> [nc \in names |-> df.rows[r][old(nc)]]]]

\* df.isnull().sum().sum()
CountNulls(df) ==
    Cardinality({rc \in RowIdx(df) \X ColSet(df) : IsNull(df.rows[rc[1]][rc[2]])})

\* df.select_dtypes(include=[np.number]).columns, include=['object']
ColumnsOfType(df, t) == SelectSeq(df.columns, LAMBDA c : df.dtypes[c] = t)

\* df[col].mean(): NaN for a column without a value
ColMean(df, c) ==
    LET have == {r \in RowIdx(df) : ~IsNull(df.rows[r][c])}
    IN IF have = {} THEN NaN ELSE RDiv(SumCol(df.rows, c), R(Cardinality(have)))

\* df[col].mode(): the most frequent values in sorted order; [0] is the least
ColModes(df, c) ==
    LET vals == {df.rows[r][c].val : r \in {q \in RowIdx(df) : ~IsNull(df.rows[q][c])}}
        cnt(v) == Cardinality({r \in RowIdx(df) :
                                  ~IsNull(df.rows[r][c]) /\ df.rows[r][c].val = v})
    IN {v \in vals : \A w \in vals : cnt(w) <= cnt(v)}

FirstMode(modes) == CHOOSE v \in modes : \A w \in modes : w = v \/ StrLess(v, w)

\* Stage 2: the value a null cell of column c is filled with (null if none)
FillValue(df, c) ==
    LET mean == ColMean(df, c)
        mode_val == ColModes(df, c)
    IN CASE df.dtypes[c] = "number" -> IF mean = NaN THEN Null ELSE NumR(mean)
         [] df.dtypes[c] = "object" ->
               IF mode_val # {} THEN Str(FirstMode(mode_val)) ELSE Str("UNKNOWN")
         [] OTHER -> Null

FillMissing(df) ==
    LET fill == [c \in ColSet(df) |-> FillValue(df, c)]
    IN [df EXCEPT !.rows =
          [r \in RowIdx(df) |->
              [c \in ColSet(df) |->
                  IF IsNull(df.rows[r][c]) THEN fill[c] ELSE df.rows[r][c]]]]

\* Stage 3: the numeric columns whose name suggests no identifier
id_patterns == {"id", "code", "pincode", "zip"}

numeric_cols_list(df) ==
    SelectSeq(ColumnsOfType(df, "number"),
              LAMBDA c : ~\E pat \in id_patterns : Contains(Lower(c), pat))

\* the k-th smallest (k in 1..Len) of a sequence of integers
Kth(sc, k) ==
    CHOOSE v \in {sc[i] : i \in 1..Len(sc)} :
        /\ Cardinality({i \in 1..Len(sc) : sc[i] < v}) < k
        /\ Cardinality({i \in 1..Len(sc) : sc[i] <= v}) >= k

\* np.percentile(sc, q), linear interpolation, for a non-empty sequence
Percentile(sc, q) ==
    LET pos == (Len(sc) - 1) * q
        lo == pos \div 100
        a == Kth(sc, lo + 1)
        b == Kth(sc, IF lo + 2 <= Len(sc) THEN lo + 2 ELSE Len(sc))
    IN Norm(100 * a + (b - a) * (pos % 100), 100)

\* the feature matrix: df[numeric_cols_list].fillna(0)
Features(df) ==
    LET cols == numeric_cols_list(df)
    IN [r \in RowIdx(df) |->
           [i \in 1..Len(cols) |->
               IF IsNull(df.rows[r][cols[i]]) THEN R(0) ELSE df.rows[r][cols[i]].val]]

\* anomaly_scores = -iso_forest.score_samples(X_scaled): one score per row, any
\* values, equal for rows with equal features
\* (with one or two rows every isolation tree gives all rows the same depth)
IsScoring(X, sc) ==
    /\ DOMAIN sc = DOMAIN X
    /\ \A r, q \in DOMAIN X : X[r] = X[q] => sc[r] = sc[q]
    /\ Len(X) <= 2 => \A r, q \in DOMAIN X : sc[r] = sc[q]

\* rows with anomaly_scores > np.percentile(anomaly_scores, 98)
SevereOutliers(df, sc) ==
    LET threshold == Percentile(sc, 98)
    IN {r \in RowIdx(df) : RGt(R(sc[r]), threshold)}

\* rows fit_predict labels -1: score_samples below its contamination percentile
DetectedOutliers(df, sc, contamination_pct) ==
    LET offset == Percentile(sc, 100 - contamination_pct)
    IN {r \in RowIdx(df) : RGt(R(sc[r]), offset)}

\* mutant: the rows the detector labels -1 are the ones removed
RemovedRows_Mut(df, sc, contamination_pct) == DetectedOutliers(df, sc, contamination_pct)

\* the rows Stage 3 removes under a cleanser with the given contamination
RemovedRows(df, sc, contamination_pct) == SevereOutliers(df, sc)

\* df_clean[~severe_outliers]
KeepRows(df, drop) ==
    LET idx == SelectSeq([r \in RowIdx(df) |-> r], LAMBDA r : r \notin drop)
    IN [df EXCEPT !.rows = [k \in 1..Len(idx) |-> df.rows[idx[k]]]]

\* Stage 4: df[col].str.strip().str.title() for state and district
TitleCell(cell) == IF cell.kind = "str" THEN Str(Title(Strip(cell.val))) ELSE cell

TitleColumn(df, col) ==
    IF ~HasColumn(df, col) THEN df
    ELSE [df EXCEPT !.rows =
            [r \in RowIdx(df) |-> [df.rows[r] EXCEPT ![col] = TitleCell(@)]]]

\* the .str accessor raises AttributeError on a column that holds no strings
StrAccessorFails(df, col) == HasColumn(df, col) /\ df.dtypes[col] # "object"

\* Stage 5: df.count(axis=1) / len(df.columns) * 100
Completeness(df, r) ==
    RMul(RDiv(R(Cardinality({c \in ColSet(df) : ~IsNull(df.rows[r][c])})),
              R(Len(df.columns))),
         R(100))

\* pd.cut(score, bins=[0, 50, 75, 90, 100], labels=[...]): bins (lo, hi], and
\* no label outside (0, 100]
QualityRating(score) ==
    IF RLe(score, R(0)) \/ RGt(score, R(100)) THEN Null
    ELSE IF RLe(score, R(50)) THEN Str("Poor")
    ELSE IF RLe(score, R(75)) THEN Str("Fair")
    ELSE IF RLe(score, R(90)) THEN Str("Good")
    ELSE Str("Excellent")

AddQuality(df) ==
    [kind |-> "frame",
     columns |-> df.columns \o <<"data_quality_score", "quality_rating">>,
     dtypes |-> [c \in ColSet(df) \cup {"data_quality_score", "quality_rating"} |->
                    CASE c = "data_quality_score" -> "number"
                      [] c = "quality_rating" -> "category"
                      [] OTHER -> df.dtypes[c]],
     rows |-> [r \in RowIdx(df) |->
                 LET completeness == Completeness(df, r)
                 IN [c \in ColSet(df) \cup {"data_quality_score", "quality_rating"} |->
                        CASE c = "data_quality_score" -> NumR(completeness)
                          [] c = "quality_rating" -> QualityRating(completeness)
                          [] OTHER -> df.rows[r][c]]]]


\* whether Stage 3 runs: len(numeric_cols_list) >= 2
OutlierStageRuns(df) == Len(numeric_cols_list(df)) >= 2

\* StandardScaler.fit_transform raises ValueError on a frame without rows
ScalerFails(df) == OutlierStageRuns(df) /\ Len(df.rows) = 0

QualityScores(df) == [r \in RowIdx(df) |-> df.rows[r]["data_quality_score"].val]

RECURSIVE SumSeq(_, _)
SumSeq(q, i) == IF i > Len(q) THEN R(0) ELSE RAdd(q[i], SumSeq(q, i + 1))

\* Series.mean(), .min(), .max(): NaN for an empty series
SeriesMean(q) == IF Len(q) = 0 THEN NaN ELSE RDiv(SumSeq(q, 1), R(Len(q)))
SeriesMin(q) ==
    IF Len(q) = 0 THEN NaN
    ELSE CHOOSE v \in {q[i] : i \in 1..Len(q)} : \A i \in 1..Len(q) : RLe(v, q[i])
SeriesMax(q) ==
    IF Len(q) = 0 THEN NaN
    ELSE CHOOSE v \in {q[i] : i \in 1..Len(q)} : \A i \in 1..Len(q) : RGe(v, q[i])

\* df_clean['quality_rating'].value_counts().to_dict()
QualityDistribution(df) ==
    [l \in {"Poor", "Fair", "Good", "Excellent"} |->
        Cardinality({r \in RowIdx(df) : df.rows[r]["quality_rating"] = Str(l)})]

\* the report compiled at the end of clean_pipeline
CompileReport(original_rows, df, missing_values, outliers, corrections_made) ==
    [original_rows |-> original_rows,
     cleaned_rows |-> Len(df.rows),
     rows_removed |-> original_rows - Len(df.rows),
     removal_rate |-> IF original_rows > 0
                      THEN RMul(RDiv(R(original_rows - Len(df.rows)), R(original_rows)),
                                R(100))
                      ELSE R(0),
     missing_values |-> missing_values,
     outliers |-> outliers,
     fuzzy_matching |-> [corrections_made |-> corrections_made],
     quality |-> [avg_quality_score |-> SeriesMean(QualityScores(df)),
                  min_quality_score |-> SeriesMin(QualityScores(df)),
                  max_quality_score |-> SeriesMax(QualityScores(df)),
                  quality_distribution |-> QualityDistribution(df)]]

\* clean_pipeline(df) of a cleanser with the given contamination (in percent),
\* sc being the detector's anomaly scores of the rows
clean_pipeline(df, contamination_pct, sc) ==
    LET original_rows == Len(df.rows)
        s1 == StandardizeColumns(df)
        missing_before == CountNulls(s1)
        s2 == FillMissing(s1)
        missing_after == CountNulls(s2)
        stage3 == OutlierStageRuns(s2)
        severe == IF stage3 THEN RemovedRows(s2, sc, contamination_pct) ELSE {}
        outliers_detected == IF stage3
                             THEN Cardinality(DetectedOutliers(s2, sc, contamination_pct))
                             ELSE 0
        s3 == KeepRows(s2, severe)
        s4 == TitleColumn(TitleColumn(s3, "state"), "district")
        corrections_made == Cardinality({c \in {"state", "district"} : HasColumn(s3, c)})
        s5 == AddQuality(s4)
    IN IF ScalerFails(s2)
       THEN [df |-> None, report |-> None, exc |-> "ValueError"]
       ELSE IF StrAccessorFails(s3, "state") \/ StrAccessorFails(s3, "district")
       THEN [df |-> None, report |-> None, exc |-> "AttributeError"]
       ELSE [df |-> s5,
             report |-> CompileReport(
                           original_rows, s5,
                           [missing_before |-> missing_before,
                            missing_after |-> missing_after,
                            imputed_values |-> missing_before - missing_after],
                           [outliers_detected |-> outliers_detected,
                            outliers_removed |-> Cardinality(severe),
                            features_analyzed |-> Len(numeric_cols_list(s2))],
                           corrections_made),
             exc |-> "none"]

\* the detector's possible scorings of the frame clean_pipeline is given
ScoreVals == {1, 2, 3}

Scorings(df) ==
    LET s2 == FillMissing(StandardizeColumns(df))
        X == Features(s2)
    IN IF OutlierStageRuns(s2) /\ Len(s2.rows) > 0
       THEN {sc \in [RowIdx(s2) -> ScoreVals] : IsScoring(X, sc)}
       ELSE {<<>>}


-----------------------------------------------------------------------------
(* Input frames of clean_pipeline, as pd.read_csv or a direct caller gives  *)
(* them: up to MaxRows rows; on frames of fewer rows each column is full,  *)
(* has its first cell null, or is entirely null.                           *)

MaxRows == 4

\* app.py:98 SentinelDataCleanser(contamination=0.05), in percent
ContaminationPct == 5

\* the cell of row r of a column with the given null pattern
PatCell(pattern, r, cell) ==
    CASE pattern = "full" -> cell
      [] pattern = "first_null" -> IF r = 1 THEN Null ELSE cell
      [] OTHER -> Null

\* read_csv gives an entirely empty column the dtype float64
PatType(pattern, dtype) == IF pattern = "all_null" THEN "number" ELSE dtype

StateText(r) == IF r = 2 THEN "GOA" ELSE " maharashtra"
DistrictText(r) == IF r = 2 THEN "NASHIK" ELSE "pune "

\* columns State, District, Age 5-17, age_18_greater
RawFrameA(n, pS, pD, pY, pA) ==
    [kind |-> "frame",
     columns |-> <<"State", "District", "Age 5-17", "age_18_greater">>,
     dtypes |-> ("State" :> PatType(pS, "object")) @@ ("District" :> PatType(pD, "object"))
                   @@ ("Age 5-17" :> "number") @@ ("age_18_greater" :> "number"),
     rows |-> [r \in 1..n |->
                 ("State" :> PatCell(pS, r, Str(StateText(r))))
                    @@ ("District" :> PatCell(pD, r, Str(DistrictText(r))))
                    @@ ("Age 5-17" :> PatCell(pY, r, Num(100 * r)))
                    @@ ("age_18_greater" :> PatCell(pA, r, Num(300)))]]

\* columns district, Age 5-17, Pincode: one column eligible for outlier detection
RawFrameB(n, pY, pP) ==
    [kind |-> "frame",
     columns |-> <<" district ", "Age 5-17", "Pincode">>,
     dtypes |-> (" district " :> "object") @@ ("Age 5-17" :> "number")
                   @@ ("Pincode" :> "number"),
     rows |-> [r \in 1..n |->
                 (" district " :> Str(DistrictText(r)))
                    @@ ("Age 5-17" :> PatCell(pY, r, Num(100 * r)))
                    @@ ("Pincode" :> PatCell(pP, r, Num(411001)))]]

\* a single numeric column
RawFrameC(n, pY) ==
    [kind |-> "frame", columns |-> <<"Age 5-17">>,
     dtypes |-> ("Age 5-17" :> "number"),
     rows |-> [r \in 1..n |-> ("Age 5-17" :> PatCell(pY, r, Num(100 * r)))]]

\* a file with a header and no rows: read_csv types every column object
HeaderOnly(df) == [df EXCEPT !.dtypes = [c \in DOMAIN df.dtypes |-> "object"]]

RawFrames ==
    {RawFrameA(n, pS, pD, pY, pA) :
        n \in 1..(MaxRows - 1), pS \in {"full", "first_null"},
        pD \in {"full", "first_null", "all_null", "all_object"},
        pY \in {"full", "first_null", "all_null"}, pA \in {"full", "all_null"}}
    \cup {RawFrameB(n, pY, pP) :
        n \in 1..(MaxRows - 1), pY \in {"full", "all_null"}, pP \in {"full", "all_null"}}
    \cup {RawFrameC(n, pY) : n \in 1..(MaxRows - 1), pY \in {"full", "all_null"}}
    \cup {RawFrameA(MaxRows, "full", "full", "full", "full"),
          RawFrameB(MaxRows, "full", "full"), RawFrameC(MaxRows, "full")}
    \cup {RawFrameA(0, "full", "full", "full", "full"),
          HeaderOnly(RawFrameA(0, "full", "full", "full", "full"))}

InitClean ==
    /\ pc = "start"
    /\ df_raw \in RawFrames
    /\ df_clean = None
    /\ cleansing_report = None
    /\ raised = "none"
    /\ df_enrol = None
    /\ df_demo = None
    /\ df_bio = None
    /\ files_count = 0
    /\ district_data = None
    /\ ml_results = None
    /\ session_state = SessionInit
    /\ run_no = 0
    /\ uploaded_files_list = <<>>
    /\ written_by = NotWritten

\* a call cleanser.clean_pipeline(df_raw)
CleanPipeline ==
    /\ pc = "start"
    /\ \E sc \in Scorings(df_raw) :
          LET r == clean_pipeline(df_raw, ContaminationPct, sc)
          IN /\ df_clean' = r.df
             /\ cleansing_report' = r.report
             /\ raised' = r.exc
    /\ pc' = "cleaned"
    /\ UNCHANGED <<df_raw, df_enrol, df_demo, df_bio, files_count, district_data,
                   ml_results, session_state, run_no,
                   uploaded_files_list, written_by>>

\* contamination of a second cleanser, in percent (IsolationForest takes
\* values in (0, 0.5])
Contaminations == {1, 10, 50}

\* a call clean_pipeline(df_raw) of a cleanser that differs in contamination:
\* random_state is fixed and score_samples does not depend on contamination,
\* so the detector gives the rows the scores of the first call
CleanAgain ==
    /\ pc = "cleaned"
    /\ \E sc \in Scorings(df_raw) :
       \E first \in {clean_pipeline(df_raw, ContaminationPct, sc)} :
          /\ first.df = df_clean
          /\ first.report = cleansing_report
          /\ first.exc = raised
          /\ \E contamination_pct \in Contaminations :
             \E r \in {clean_pipeline(df_raw, contamination_pct, sc)} :
                /\ df_clean' = r.df
                /\ cleansing_report' = r.report
                /\ raised' = r.exc
    /\ pc' = "recleaned"
    /\ UNCHANGED <<df_raw, df_enrol, df_demo, df_bio, files_count, district_data,
                   ml_results, session_state, run_no,
                   uploaded_files_list, written_by>>

NextClean == CleanPipeline \/ CleanAgain

SpecClean == InitClean /\ [][NextClean]_vars


-----------------------------------------------------------------------------
(* Claims about clean_pipeline, checked under SpecClean.                   *)

Cleaned == pc = "cleaned" /\ raised = "none"

\* C3 as stated: clean_pipeline removes at most 2% of the rows of its input,
\* and none when fewer than 2 numeric columns are eligible.
C3_Original ==
    Cleaned =>
        /\ 100 * cleansing_report.rows_removed <= 2 * cleansing_report.original_rows
        /\ cleansing_report.outliers.features_analyzed < 2
              => cleansing_report.rows_removed = 0

\* C9 as stated: after clean_pipeline no null remains in any column of the
\* cleansed frame, missing_after is 0, and every data_quality_score is in [0, 100].
C9_Original ==
    Cleaned =>
        /\ \A r \in RowIdx(df_clean) : \A c \in ColSet(df_clean) :
              ~IsNull(df_clean.rows[r][c])
        /\ cleansing_report.missing_values.missing_after = 0
        /\ \A r \in RowIdx(df_clean) :
              LET q == df_clean.rows[r]["data_quality_score"].val
              IN q[2] > 0 /\ q[1] >= 0 /\ q[1] <= 100 * q[2]

\* the rating of the left-closed buckets [0,50) [50,75) [75,90) [90,100]
LeftClosedRating(q) ==
    IF q[1] < 50 * q[2] THEN "Poor"
    ELSE IF q[1] < 75 * q[2] THEN "Fair"
    ELSE IF q[1] < 90 * q[2] THEN "Good" ELSE "Excellent"

\* C10 as stated: every cleansed row has a quality_rating, the one of the
\* left-closed bucket of its data_quality_score.
C10_Original ==
    Cleaned =>
        \A r \in RowIdx(df_clean) :
            df_clean.rows[r]["quality_rating"]
                = Str(LeftClosedRating(df_clean.rows[r]["data_quality_score"].val))

\* C23: a second clean_pipeline call on the same frame by a cleanser that
\* differs only in contamination returns the same cleansed frame, the same
\* exception if any, and the same report except for outliers_detected.
C23_RemovalIgnoresContamination ==
    [][pc' = "recleaned" =>
          /\ df_clean' = df_clean
          /\ raised' = raised
          /\ raised = "none" =>
                cleansing_report'
                   = [cleansing_report EXCEPT !.outliers.outliers_detected =
                         cleansing_report'.outliers.outliers_detected]]_vars

\* a second call that removed one row and labelled two
C23_Witness ==
    /\ pc = "recleaned"
    /\ raised = "none"
    /\ cleansing_report.outliers.outliers_removed = 1
    /\ cleansing_report.outliers.outliers_detected = 2
    /\ Len(df_clean.rows) = Len(df_raw.rows) - 1

-----------------------------------------------------------------------------
(* components/ml_models.py: train_ml_models.                               *)

\* float arithmetic with NaN (0/0 is the only division by zero that arises)
FAdd(a, b) == IF a = NaN \/ b = NaN THEN NaN ELSE RAdd(a, b)
FSub(a, b) == IF a = NaN \/ b = NaN THEN NaN ELSE RSub(a, b)
FMul(a, b) == IF a = NaN \/ b = NaN THEN NaN ELSE RMul(a, b)
FDiv(a, b) == IF a = NaN \/ b = NaN \/ b[1] = 0 THEN NaN ELSE RDiv(a, b)

feature_cols(fc) ==
    IF fc >= 2
    THEN <<"enrol_total", "demo_total", "bio_total", "gap_abs", "compliance_rate",
           "migration_index">>
    ELSE <<"total_updates", "youth_updates", "adult_updates", "record_count",
           "youth_ratio">>

\* data.columns of a district table
TableColumns(data) == DOMAIN data.rows[1]

available_features(data, fc) ==
    SelectSeq(feature_cols(fc), LAMBDA col : col \in TableColumns(data))

\* a feature cell as a float (record_count is the only integer column)
FeatureValue(row, col) == IF col = "record_count" THEN R(row[col]) ELSE row[col]

\* X = data[available_features].fillna(0)
MLFeatures(data, fc) ==
    LET cols == available_features(data, fc)
    IN [r \in 1..Len(data.rows) |->
           [i \in 1..Len(cols) |->
               LET v == FeatureValue(data.rows[r], cols[i])
               IN IF v = NaN THEN R(0) ELSE v]]

MinOf(sc) == Kth(sc, 1)
MaxOf(sc) == Kth(sc, Len(sc))

\* (ml_anomaly_confidence - min_conf) / (max_conf - min_conf) * 100
MLConfidence(sc, r) ==
    LET min_conf == MinOf(sc)
        max_conf == MaxOf(sc)
    IN FMul(FDiv(RSub(R(sc[r]), R(min_conf)), RSub(R(max_conf), R(min_conf))), R(100))

\* fit_predict labels -1 the rows whose score_samples is below the contamination
\* percentile (contamination=0.15)
MLOutliers(sc) ==
    LET offset == Percentile(sc, 85)
    IN {r \in 1..Len(sc) : RGt(R(sc[r]), offset)}

label_map(risk_level) ==
    CASE risk_level = "NORMAL" -> 0 [] risk_level = "HIGH" -> 1
      [] risk_level = "CRITICAL" -> 2

\* train_test_split(test_size=0.2): the number of training rows
TrainSize(n) == (8 * n) \div 10

\* rf_classifier.classes_ as a sorted sequence
ClassSeq(classes) == SelectSeq(<<0, 1, 2>>, LAMBDA c : c \in classes)

ClassIndex(classes, c) ==
    CHOOSE i \in 1..Len(ClassSeq(classes)) : ClassSeq(classes)[i] = c

\* mutant: the last class is the proxy also when one class was trained
CriticalProbability_Mut(classes, probs) ==
    IF 2 \in classes THEN R(probs[ClassIndex(classes, 2)]) ELSE R(probs[Len(probs)])

\* the ml_critical_probability of a row whose predict_proba row is probs (percent)
CriticalProbability(classes, probs) ==
    LET n_classes == Len(probs)
    IN IF 2 \in classes THEN R(probs[ClassIndex(classes, 2)])
       ELSE IF n_classes > 1 THEN R(probs[n_classes])
       ELSE R(0)

\* mutant: the weights of the classifier and of the regressor are exchanged
EnsembleScore_Mut(ml_confidence, ml_critical_probability, third) ==
    FAdd(FAdd(FMul(ml_confidence, <<2, 5>>), FMul(ml_critical_probability, <<1, 5>>)),
         FMul(third, <<2, 5>>))

\* 0.4 * ml_confidence + 0.4 * ml_critical_probability + 0.2 * third
EnsembleScore(ml_confidence, ml_critical_probability, third) ==
    FAdd(FAdd(FMul(ml_confidence, <<2, 5>>), FMul(ml_critical_probability, <<2, 5>>)),
         FMul(third, <<1, 5>>))

\* pd.cut(score, bins=[0, 30, 60, 100], labels=['NORMAL', 'HIGH', 'CRITICAL']):
\* right-closed buckets, the lowest edge excluded, NaN outside the buckets
MLRiskLevel(score) ==
    IF score = NaN THEN Null
    ELSE IF RGt(score, R(0)) /\ RLe(score, R(30)) THEN Str("NORMAL")
    ELSE IF RGt(score, R(30)) /\ RLe(score, R(60)) THEN Str("HIGH")
    ELSE IF RGt(score, R(60)) /\ RLe(score, R(100)) THEN Str("CRITICAL")
    ELSE Null

\* mutant: the supervised stages start at 10 rows
SupervisedStagesRun_Mut(n) == n >= 10

\* `if len(X) > 10` (ml_models.py:60): whether the classifier is trained
SupervisedStagesRun(n) == n > 10

\* mutant: the regressor needs one row more than the classifier
RegressorRuns_Mut(n) == n > 11

\* `if len(X) > 10` (ml_models.py:97): whether the regressor is trained
RegressorRuns(n) == n > 10

\* the columns train_ml_models adds to row r; fit holds what the fitted models
\* return: scores (-score_samples), classes (classes_), rf_probs (predict_proba,
\* percent) and predicted (gb_regressor.predict)
MLRow(data, fit, r) ==
    LET row == data.rows[r]
        n == Len(data.rows)
        ml_confidence == MLConfidence(fit.scores, r)
        iso == ("ml_anomaly_score" :> (IF r \in MLOutliers(fit.scores) THEN -1 ELSE 1))
                  @@ ("ml_anomaly_confidence" :> R(fit.scores[r]))
                  @@ ("ml_confidence" :> ml_confidence)
        classified == IF SupervisedStagesRun(n)
                      THEN row @@ iso
                              @@ ("ml_critical_probability" :>
                                     CriticalProbability(fit.classes, fit.rf_probs[r]))
                      ELSE row @@ iso
        predicted == IF RegressorRuns(n)
                     THEN classified @@ ("ml_predicted_risk" :> fit.predicted[r])
                     ELSE classified
        third == IF "ml_predicted_risk" \in DOMAIN predicted
                 THEN predicted["ml_predicted_risk"] ELSE predicted["anomaly_score"]
        blended == IF /\ "ml_confidence" \in DOMAIN predicted
                      /\ "ml_critical_probability" \in DOMAIN predicted
                   THEN predicted
                           @@ ("ml_ensemble_score" :>
                                  EnsembleScore(ml_confidence,
                                                predicted["ml_critical_probability"], third))
                   ELSE predicted
    IN IF "ml_ensemble_score" \in DOMAIN blended
       THEN blended @@ ("ml_risk_level" :> MLRiskLevel(blended["ml_ensemble_score"]))
       ELSE blended

MLResults(data, fit) ==
    LET n == Len(data.rows)
        iso == [anomalies_detected |-> Cardinality(MLOutliers(fit.scores)),
                total_samples |-> n]
        rf == IF SupervisedStagesRun(n)
              THEN ("isolation_forest" :> iso)
                      @@ ("random_forest" :>
                             [model |-> [classes_ |-> fit.classes,
                                         predict_proba |-> fit.rf_probs],
                              n_classes |-> Cardinality(fit.classes)])
              ELSE ("isolation_forest" :> iso)
    IN IF RegressorRuns(n)
       THEN rf @@ ("gradient_boosting" :> [model |-> "GradientBoostingRegressor"])
       ELSE rf

\* train_ml_models(data, files_count); data = None raises on data.columns, and
\* StandardScaler raises on a feature matrix without columns
train_ml_models(data, fc, fit) ==
    IF data = None THEN [data |-> None, results |-> None, exc |-> "AttributeError"]
    ELSE IF Len(available_features(data, fc)) = 0
    THEN [data |-> None, results |-> None, exc |-> "ValueError"]
    ELSE [data |-> [data EXCEPT !.rows = [r \in 1..Len(data.rows) |-> MLRow(data, fit, r)]],
          results |-> MLResults(data, fit),
          exc |-> "none"]

-----------------------------------------------------------------------------
(* What the fitted models may return, and the district tables they train on. *)

MaxDistricts == 12

\* the values of -score_samples the model draws from
ConfVals == {0, 4, 5}
\* the class probabilities (percent) the model draws from
ProbVals == {0, 60, 100}

\* a per-row assignment: a for the first row, b for the second, c for the others
Blocks(n, a, b, c) == [r \in 1..n |-> IF r = 1 THEN a ELSE IF r = 2 THEN b ELSE c]

\* a model output is a function of the feature row
SameForSameFeatures(X, f) == \A r, q \in DOMAIN X : X[r] = X[q] => f[r] = f[q]

\* -iso_forest.score_samples(X_scaled)
ScoreFits(X) ==
    {sc \in {Blocks(Len(X), a, b, c) : a \in ConfVals, b \in {0, 5}, c \in {0, 5}} :
        IsScoring(X, sc)}

\* the label sets a training split of TrainSize(n) rows can hold
TrainedClasses(data) ==
    LET n == Len(data.rows)
        y == [r \in 1..n |-> label_map(data.rows[r]["risk_level"])]
        count(S) == Cardinality({r \in 1..n : y[r] \in S})
    IN {S \in SUBSET {0, 1, 2} :
           /\ S # {}
           /\ \A c \in S : count({c}) > 0
           /\ count(S) >= TrainSize(n)
           /\ Cardinality(S) <= TrainSize(n)}

\* a predict_proba row (percent, one entry per trained class) whose last entry is p
ProbaRow(classes, p) ==
    CASE Cardinality(classes) = 1 -> <<100>>
      [] Cardinality(classes) = 2 -> <<100 - p, p>>
      [] Cardinality(classes) = 3 -> <<100 - p, 0, p>>

ProbaFits(X, classes) ==
    {pr \in {Blocks(Len(X), ProbaRow(classes, p1), ProbaRow(classes, p2),
                    ProbaRow(classes, p2)) : p1 \in ProbVals, p2 \in {0, 100}} :
        SameForSameFeatures(X, pr)}

\* gb_regressor.predict: for the first row its target or the least target of
\* the (sorted) table, for the other rows their target
PredictFits(X, data) ==
    LET n == Len(data.rows)
        own == [r \in 1..n |-> data.rows[r]["anomaly_score"]]
    IN {pd \in {[own EXCEPT ![1] = v] : v \in {own[1], own[n]}} :
           SameForSameFeatures(X, pd)}

NoFit == [classes |-> {}, rf_probs |-> <<>>, predicted |-> <<>>]

\* the fits of the three models on a district table
Fits(data, fc) ==
    IF data = None THEN {NoFit @@ [scores |-> <<>>]}
    ELSE LET X == MLFeatures(data, fc)
         IN IF SupervisedStagesRun(Len(X))
            THEN UNION {{[scores |-> sc, classes |-> S, rf_probs |-> pr,
                          predicted |-> pd] :
                            sc \in ScoreFits(X),
                            pr \in ProbaFits(X, S),
                            pd \in PredictFits(X, data)} : S \in TrainedClasses(data)}
            ELSE {NoFit @@ [scores |-> sc] : sc \in ScoreFits(X)}

\* the totals <<enrol, demo, bio>> of the k-th district of a three-file upload
MultiTotals(pattern, k) ==
    CASE pattern = "flat" -> <<1000, 500, 500>>
      [] pattern = "calm" -> IF k = 1 THEN <<2000, 800, 800>> ELSE <<1000, 500, 500>>
      [] pattern = "mixed" -> IF k = 1 THEN <<200, 70000, 100>>
                              ELSE IF k = 2 THEN <<1000, 500, 100>>
                              ELSE <<1000, 500, 500>>
      [] pattern = "critical" -> IF k = 1 THEN <<200, 70000, 100>>
                                 ELSE <<100, 60000, 100>>

\* the counts <<age_5_17, age_18_greater>> of the k-th district of a one-file upload
SingleCounts(pattern, k) ==
    CASE pattern = "flat" -> <<100, 300>>
      [] pattern = "calm" -> IF k = 1 THEN <<200, 800>> ELSE <<100, 300>>
      [] pattern = "mixed" -> IF k = 1 THEN <<0, 300000>> ELSE <<100, 300>>
      [] pattern = "graded" -> IF k = 1 THEN <<0, 300000>>
                               ELSE IF k = 2 THEN <<200, 800>> ELSE <<100, 300>>

\* a frame with one row for each of the first n districts
DistrictFrame(n, y, a) ==
    [kind |-> "frame", columns |-> AggCols,
     dtypes |-> ("state" :> "object") @@ ("district" :> "object")
                   @@ ("age_5_17" :> "number") @@ ("age_18_greater" :> "number"),
     rows |-> [k \in 1..n |-> AggRow(DistrictOrder[k], y[k], a[k])]]

MLRowCounts == {1, 2, 3, 10, 11, MaxDistricts}

\* the three frames of a three-file upload over n districts
MultiUpload(n, pattern) ==
    [enrol |-> DistrictFrame(n, [k \in 1..n |-> 0], [k \in 1..n |-> MultiTotals(pattern, k)[1]]),
     demo |-> DistrictFrame(n, [k \in 1..n |-> 0], [k \in 1..n |-> MultiTotals(pattern, k)[2]]),
     bio |-> DistrictFrame(n, [k \in 1..n |-> 0], [k \in 1..n |-> MultiTotals(pattern, k)[3]])]

SingleUpload(n, pattern) ==
    DistrictFrame(n, [k \in 1..n |-> SingleCounts(pattern, k)[1]],
                     [k \in 1..n |-> SingleCounts(pattern, k)[2]])

\* the state after the aggregator of the mode has returned
InitML ==
    /\ pc = "analysed"
    /\ \/ \E n \in MLRowCounts, pattern \in {"flat", "calm", "mixed", "critical"} :
             LET u == MultiUpload(n, pattern)
             IN /\ df_enrol = u.enrol
                /\ df_demo = u.demo
                /\ df_bio = u.bio
                /\ files_count = 3
                /\ district_data = analyze_multiple_datasets(u.enrol, u.demo, u.bio).ret
       \/ \E f \in {SingleUpload(n, pattern) :
                       n \in MLRowCounts,
                                                   pattern \in {"flat", "calm", "mixed", "graded"}}
                     \cup {NoDistrictFrame} :
             /\ df_enrol = f
             /\ df_demo = None
             /\ df_bio = None
             /\ files_count = 1
             /\ district_data = analyze_single_dataset(f, "enrol").ret
    /\ ml_results = None
    /\ raised = "none"
    /\ df_raw = None
    /\ df_clean = None
    /\ cleansing_report = None
    /\ session_state = SessionInit
    /\ run_no = 0
    /\ uploaded_files_list = <<>>
    /\ written_by = NotWritten

\* district_data, ml_results = train_ml_models(district_data, files_count)
TrainMLModels ==
    /\ pc = "analysed"
    /\ \E fit \in Fits(district_data, files_count) :
          LET r == train_ml_models(district_data, files_count, fit)
          IN /\ district_data' = r.data
             /\ ml_results' = r.results
             /\ raised' = r.exc
    /\ pc' = "trained"
    /\ UNCHANGED <<df_enrol, df_demo, df_bio, files_count, df_raw, df_clean,
                   cleansing_report, session_state, run_no,
                   uploaded_files_list, written_by>>

NextML == TrainMLModels

SpecML == InitML /\ [][NextML]_vars

-----------------------------------------------------------------------------
(* Claims about train_ml_models, checked under SpecML.                     *)

Trained == pc = "trained" /\ raised = "none"

HasEnsemble(row) == "ml_ensemble_score" \in DOMAIN row /\ row["ml_ensemble_score"] # NaN

\* the tier of the cut points of the rule-based score
TierByCutPoints(score) == Str(RiskLevel(score))

\* C2 as stated: every row with an ml_ensemble_score has an ml_risk_level, the
\* tier of its score under the cut points of the rule-based tier: score <= 30
\* NORMAL, 30 < score <= 60 HIGH, score > 60 CRITICAL.
C2_Original ==
    Trained =>
        \A row \in TableRows(district_data) :
            HasEnsemble(row) =>
                row["ml_risk_level"] = TierByCutPoints(row["ml_ensemble_score"])

\* C11 as stated: every row gets an ml_confidence that is a defined number in
\* [0, 100], also when all rows have the same detector score.
C11_Original ==
    Trained =>
        \A row \in TableRows(district_data) :
            /\ row["ml_confidence"] # NaN
            /\ RGe(row["ml_confidence"], R(0))
            /\ RLe(row["ml_confidence"], R(100))


\* the third term of the blend: the regressor's column, else the rule-based score
ThirdTerm(row) ==
    IF "ml_predicted_risk" \in DOMAIN row THEN row["ml_predicted_risk"]
    ELSE row["anomaly_score"]

\* 5 * score = 2 * confidence + 2 * probability + third, NaN if a term is NaN
IsBlend(row) ==
    LET c == row["ml_confidence"]
        p == row["ml_critical_probability"]
        t == ThirdTerm(row)
        e == row["ml_ensemble_score"]
    IN IF c = NaN \/ p = NaN \/ t = NaN THEN e = NaN
       ELSE /\ e # NaN
            /\ 5 * e[1] * c[2] * p[2] * t[2]
                  = e[2] * (2 * c[1] * p[2] * t[2] + 2 * p[1] * c[2] * t[2]
                               + t[1] * c[2] * p[2])

\* the row of the spec's example: confidence 80, probability 60, prediction 50
IsExampleRow(row) ==
    /\ "ml_critical_probability" \in DOMAIN row
    /\ row["ml_confidence"] = R(80)
    /\ row["ml_critical_probability"] = R(60)
    /\ ThirdTerm(row) = R(50)

\* C12: whenever ml_confidence and ml_critical_probability both exist, the row's
\* ml_ensemble_score is 0.4 * ml_confidence + 0.4 * ml_critical_probability
\* + 0.2 * ml_predicted_risk (anomaly_score if the regressor gave no column);
\* confidence 80, probability 60, prediction 50 give 66 and the tier CRITICAL.
C12_EnsembleBlend ==
    Trained =>
        \A row \in TableRows(district_data) :
            ("ml_confidence" \in DOMAIN row /\ "ml_critical_probability" \in DOMAIN row)
                => /\ "ml_ensemble_score" \in DOMAIN row
                   /\ IsBlend(row)
                   /\ IsExampleRow(row)
                         => /\ row["ml_ensemble_score"] = R(66)
                            /\ row["ml_risk_level"] = Str("CRITICAL")

C12_Witness ==
    Trained /\ \E row \in TableRows(district_data) : IsExampleRow(row)

SupervisedColumns ==
    {"ml_critical_probability", "ml_predicted_risk", "ml_ensemble_score", "ml_risk_level"}

SupervisedResults == {"random_forest", "gradient_boosting"}

\* C13: train_ml_models does not fail on a district table; with fewer than 11
\* rows the table gets none of the classifier, regressor, ensemble and ML tier
\* columns and the results no random_forest or gradient_boosting entry; with 11
\* or more rows all of them are there.
C13_SupervisedFrom11Rows ==
    pc = "trained" =>
        /\ raised # "none" => ~HasColumn(df_enrol, "district")
        /\ raised = "none" =>
              /\ "isolation_forest" \in DOMAIN ml_results
              /\ \A row \in TableRows(district_data) :
                    IF Len(district_data.rows) < 11
                    THEN SupervisedColumns \cap DOMAIN row = {}
                    ELSE SupervisedColumns \subseteq DOMAIN row
              /\ IF Len(district_data.rows) < 11
                 THEN SupervisedResults \cap DOMAIN ml_results = {}
                 ELSE SupervisedResults \subseteq DOMAIN ml_results

C13_Witness ==
    /\ Trained
    /\ Len(district_data.rows) = 10
    /\ \A row \in TableRows(district_data) : "ml_confidence" \in DOMAIN row

ClassifierRan == Trained /\ "random_forest" \in DOMAIN ml_results

\* the classifier's probability (percent) of its highest-indexed class for row r
LastClassProbability(r) ==
    LET probs == ml_results["random_forest"].model.predict_proba[r]
    IN R(probs[Len(probs)])

TrainedClassesOf(results) == results["random_forest"].model.classes_

\* C14 as stated: ml_critical_probability is the probability of CRITICAL when it
\* is a trained class, and otherwise, with one or two trained classes, the
\* probability of the highest-indexed trained class (CRITICAL, when trained, is
\* the highest-indexed class).
C14_Original ==
    ClassifierRan =>
        \A r \in 1..Len(district_data.rows) :
            district_data.rows[r]["ml_critical_probability"] = LastClassProbability(r)

\* C14 amended: ml_critical_probability is the probability of CRITICAL when it is
\* a trained class, the probability of the highest-indexed class when two
\* classes without CRITICAL were trained, and 0 when the one trained class is
\* not CRITICAL.
C14_Amended ==
    ClassifierRan =>
        \A r \in 1..Len(district_data.rows) :
            district_data.rows[r]["ml_critical_probability"]
                = IF 2 \notin TrainedClassesOf(ml_results)
                        /\ Cardinality(TrainedClassesOf(ml_results)) = 1
                  THEN R(0)
                  ELSE LastClassProbability(r)

C14_Witness ==
    /\ ClassifierRan
    /\ TrainedClassesOf(ml_results) = {0}
    /\ \E row \in TableRows(district_data) : row["ml_critical_probability"] = R(0)

\* C28: after train_ml_models every row has all of ml_critical_probability,
\* ml_predicted_risk, ml_ensemble_score and ml_risk_level (tables of 11 or more
\* rows) or none of them (10 or fewer); a row with an ensemble score has an
\* ml_predicted_risk, which is the third term of its blend, so the rule-based
\* anomaly_score never stands in for it.
C28_AllOrNone ==
    Trained =>
        \A row \in TableRows(district_data) :
            /\ \/ Len(district_data.rows) >= 11 /\ SupervisedColumns \subseteq DOMAIN row
               \/ Len(district_data.rows) <= 10 /\ SupervisedColumns \cap DOMAIN row = {}
            /\ "ml_ensemble_score" \in DOMAIN row =>
                  /\ "ml_predicted_risk" \in DOMAIN row
                  /\ ThirdTerm(row) = row["ml_predicted_risk"]
                  /\ IsBlend(row)

\* a table of 11 rows with a row whose regressor prediction differs from its
\* rule-based score
C28_Witness ==
    /\ Trained
    /\ Len(district_data.rows) = 11
    /\ \E row \in TableRows(district_data) :
          /\ SupervisedColumns \subseteq DOMAIN row
          /\ row["ml_predicted_risk"] # row["anomaly_score"]
          /\ row["ml_ensemble_score"] # NaN

-----------------------------------------------------------------------------
(* app.py:89-174: the handler of the "Analyze Trends" button.              *)

\* c.strip().lower().replace('_', ' ')
AppColName(c) == Replace(Lower(Strip(c)), "_", " ")

\* df_clean.columns = [...], then .str.strip().str.title() on state and district
AppStandardize(df) ==
    LET new == [i \in 1..Len(df.columns) |-> AppColName(df.columns[i])]
        names == {new[i] : i \in 1..Len(new)}
        old(nc) == df.columns[CHOOSE i \in 1..Len(new) : new[i] = nc]
        renamed == [kind |-> "frame", columns |-> new,
                    dtypes |-> [nc \in names |-> df.dtypes[old(nc)]],
                    rows |-> [r \in RowIdx(df) |-> [nc \in names |-> df.rows[r][old(nc)]]]]
    IN IF StrAccessorFails(renamed, "state") \/ StrAccessorFails(renamed, "district")
       THEN [df |-> None, exc |-> "AttributeError"]
       ELSE [df |-> TitleColumn(TitleColumn(renamed, "state"), "district"),
             exc |-> "none"]

\* mutant: a file whose name matches no role always fills the enrollment slot
Classify_Mut(name, slots) ==
    LET filename == Lower(name)
    IN IF Contains(filename, "enrol") \/ Contains(filename, "enrollment") THEN "enrol"
       ELSE IF Contains(filename, "demo") \/ Contains(filename, "demographic") THEN "demo"
       ELSE IF Contains(filename, "bio") \/ Contains(filename, "biometric") THEN "bio"
       ELSE "enrol"

\* the slot a file fills: by its name, else the first of enrol, demo that is
\* free, else bio
Classify(name, slots) ==
    LET filename == Lower(name)
    IN IF Contains(filename, "enrol") \/ Contains(filename, "enrollment") THEN "enrol"
       ELSE IF Contains(filename, "demo") \/ Contains(filename, "demographic") THEN "demo"
       ELSE IF Contains(filename, "bio") \/ Contains(filename, "biometric") THEN "bio"
       ELSE IF slots.enrol = None THEN "enrol"
       ELSE IF slots.demo = None THEN "demo"
       ELSE "bio"

\* the locals of the handler before the file loop
LoopStart ==
    [slots |-> [enrol |-> None, demo |-> None, bio |-> None],
     total_rows_before |-> 0, total_rows_after |-> 0, all_reports |-> <<>>,
     exc |-> "none"]

\* mutant: the reports collected so far are the one object the cleanser rewrites
ClassifyFile_Alias(acc, file, cleaned, std) ==
    IF std.exc # "none" THEN [acc EXCEPT !.exc = std.exc]
    ELSE [slots |-> [acc.slots EXCEPT ![Classify(file.name, acc.slots)] = std.df],
          total_rows_before |-> acc.total_rows_before + Len(file.frame.rows),
          total_rows_after |-> acc.total_rows_after + Len(cleaned.df.rows),
          all_reports |-> [i \in 1..(Len(acc.all_reports) + 1) |-> cleaned.report],
          exc |-> "none"]

\* mutant: a slot that is filled keeps its frame
ClassifyFile_Mut(acc, file, cleaned, std) ==
    IF std.exc # "none" THEN [acc EXCEPT !.exc = std.exc]
    ELSE [slots |-> [acc.slots EXCEPT ![Classify(file.name, acc.slots)] =
                        IF @ = None THEN std.df ELSE @],
          total_rows_before |-> acc.total_rows_before + Len(file.frame.rows),
          total_rows_after |-> acc.total_rows_after + Len(cleaned.df.rows),
          all_reports |-> Append(acc.all_reports, cleaned.report),
          exc |-> "none"]

\* the rest of a pass once the file is cleansed and standardized: the slot is
\* filled, the row counts and the report are accumulated
ClassifyFile(acc, file, cleaned, std) ==
    IF std.exc # "none" THEN [acc EXCEPT !.exc = std.exc]
    ELSE [slots |-> [acc.slots EXCEPT ![Classify(file.name, acc.slots)] = std.df],
          total_rows_before |-> acc.total_rows_before + Len(file.frame.rows),
          total_rows_after |-> acc.total_rows_after + Len(cleaned.df.rows),
          all_reports |-> Append(acc.all_reports, cleaned.report),
          exc |-> "none"]

\* the rest of a pass once clean_pipeline has returned or raised
StandardizeFile(acc, file, cleaned) ==
    IF cleaned.exc # "none" THEN [acc EXCEPT !.exc = cleaned.exc]
    ELSE CHOOSE out \in {ClassifyFile(acc, file, cleaned, std) :
                            std \in {AppStandardize(cleaned.df)}} : TRUE

\* one pass of `for file in uploaded_files_list`, sc being the scores the
\* cleanser's detector gives the rows of the file (each stage's value is bound
\* once and handed to the next)
ProcessFile(acc, file, sc) ==
    IF acc.exc # "none" THEN acc
    ELSE CHOOSE out \in {StandardizeFile(acc, file, cleaned) :
                            cleaned \in {clean_pipeline(file.frame, ContaminationPct, sc)}} :
             TRUE

\* the i-th pass of `for file in uploaded_files_list`, if there is an i-th file
Pass(acc, files, scs, i) ==
    IF i > Len(files) THEN acc ELSE ProcessFile(acc, files[i], scs[i])

\* the dict stored in st.session_state.cleansing_report
SessionReport(loop) ==
    LET removed == loop.total_rows_before - loop.total_rows_after
    IN [total_rows_before |-> loop.total_rows_before,
        total_rows_after |-> loop.total_rows_after,
        rows_removed |-> removed,
        removal_rate |-> IF loop.total_rows_before > 0
                         THEN RMul(RDiv(R(removed), R(loop.total_rows_before)), R(100))
                         ELSE R(0),
        detailed_reports |-> loop.all_reports]

\* mutant: the frame of the filled slot is analysed as an enrollment dataset
SingleChoice_Mut(slots) ==
    IF slots.enrol # None THEN [single_df |-> slots.enrol, dtype |-> "enrol"]
    ELSE IF slots.demo # None THEN [single_df |-> slots.demo, dtype |-> "enrol"]
    ELSE [single_df |-> slots.bio, dtype |-> "enrol"]

\* the frame and dataset type of single-dataset mode
SingleChoice(slots) ==
    IF slots.enrol # None THEN [single_df |-> slots.enrol, dtype |-> "enrol"]
    ELSE IF slots.demo # None THEN [single_df |-> slots.demo, dtype |-> "demo"]
    ELSE [single_df |-> slots.bio, dtype |-> "bio"]

\* the aggregator call of the mode files_count selects
Analyze(slots, fc) ==
    IF fc >= 2 THEN analyze_multiple_datasets(slots.enrol, slots.demo, slots.bio)
    ELSE analyze_single_dataset(SingleChoice(slots).single_df, SingleChoice(slots).dtype)

\* mutant: the model results of the run are not stored
StoreResults_Mut(session, data, results, fc) ==
    [session EXCEPT !.district_data = data, !.data_processed = TRUE,
                    !.files_count = fc]

\* the session fields a completed run stores (app.py:170-173)
StoreResults(session, data, results, fc) ==
    [session EXCEPT !.district_data = data, !.ml_results = results,
                    !.data_processed = TRUE, !.files_count = fc]

\* the dashboard gate (app.py:177)
DashboardShown(session) == session.data_processed /\ session.district_data # None

-----------------------------------------------------------------------------
(* Uploads and the session under a sequence of runs.                       *)

MaxRuns == 2

File(name, frame) == [name |-> name, frame |-> frame]

\* two districts, two numeric columns
TwoDistricts == RawFrameA(2, "full", "full", "full", "full")
\* one district, one numeric column besides the pincode
OneDistrict == RawFrameB(1, "full", "full")
\* a header with a district column and no rows
NoRows == HeaderOnly(RawFrameA(0, "full", "full", "full", "full"))
\* no district column
NoDistrict == RawFrameC(1, "full")
\* a district column without a value
EmptyDistrict == RawFrameA(1, "full", "all_null", "full", "full")

\* two districts, the first row without its youth count
FirstNull == RawFrameA(2, "full", "full", "first_null", "full")
\* three rows of two districts
ThreeRows == RawFrameA(3, "full", "full", "full", "full")

Uploads ==
    {<<File("enrolment.csv", f)>> :
        f \in {TwoDistricts, OneDistrict, NoRows, NoDistrict, EmptyDistrict}}
    \cup {<<File("demographic.csv", OneDistrict)>>, <<File("biometric.csv", TwoDistricts)>>,
          <<File("data.csv", OneDistrict)>>, <<File("BIO.CSV", OneDistrict)>>,
          <<File("demo_enrol.csv", TwoDistricts)>>,
          <<File("demographic.csv", OneDistrict), File("data.csv", TwoDistricts)>>,
          <<File("enrolment.csv", TwoDistricts), File("data.csv", OneDistrict)>>,
          <<File("enrolment.csv", FirstNull)>>,
          <<File("enrolment.csv", OneDistrict), File("demographic.csv", ThreeRows)>>,
          <<File("enrolment.csv", FirstNull), File("biometric.csv", OneDistrict)>>,
          <<File("enrolment.csv", TwoDistricts), File("enrol_2.csv", OneDistrict)>>,
          <<File("data.csv", TwoDistricts), File("enrolment.csv", OneDistrict)>>,
          <<File("biometric.csv", TwoDistricts), File("data.csv", OneDistrict),
            File("survey.csv", OneDistrict), File("census.csv", OneDistrict)>>}
    \cup {<<File("enrolment.csv", f), File("demographic.csv", g)>> :
             f \in {TwoDistricts, NoDistrict}, g \in {OneDistrict, NoRows}}
    \cup {<<File("data.csv", OneDistrict), File("survey.csv", TwoDistricts),
            File("census.csv", g)>> : g \in {OneDistrict, NoRows}}

\* a scoring whose values are 1..m: one scoring for each order of the rows
RankScoring(sc) ==
    {sc[i] : i \in DOMAIN sc} = 1..Cardinality({sc[i] : i \in DOMAIN sc})

\* the detector scores of the cleanser for each file of an upload
ScoringSeqs(files) ==
    {scs \in [1..Len(files) ->
                UNION {{sc \in Scorings(files[i].frame) : RankScoring(sc)} :
                          i \in 1..Len(files)}] :
        \A i \in 1..Len(files) : scs[i] \in Scorings(files[i].frame)}

InitApp ==
    /\ pc = "page"
    /\ df_enrol = None
    /\ df_demo = None
    /\ df_bio = None
    /\ files_count = 0
    /\ district_data = None
    /\ ml_results = None
    /\ raised = "none"
    /\ df_raw = None
    /\ df_clean = None
    /\ cleansing_report = None
    /\ session_state = SessionInit
    /\ run_no = 0
    /\ uploaded_files_list = <<>>
    /\ written_by = NotWritten

\* a click on "Analyze Trends" with an upload of up to four files: the handler
\* runs to its end or to the first exception
ClickAnalyze ==
    /\ pc = "page"
    /\ run_no < MaxRuns
    /\ \E files \in Uploads : \E scs \in ScoringSeqs(files) :
       \E pass1 \in {Pass(LoopStart, files, scs, 1)} :
       \E pass2 \in {Pass(pass1, files, scs, 2)} :
       \E pass3 \in {Pass(pass2, files, scs, 3)} :
       \E loop \in {Pass(pass3, files, scs, 4)} :
          LET fc == Len(files)
              run == run_no + 1
              s1 == [session_state EXCEPT !.cleansing_report = SessionReport(loop)]
              w1 == [written_by EXCEPT !.cleansing_report = run]
          IN /\ uploaded_files_list' = files
             /\ files_count' = fc
             /\ run_no' = run
             /\ df_enrol' = loop.slots.enrol
             /\ df_demo' = loop.slots.demo
             /\ df_bio' = loop.slots.bio
             /\ IF loop.exc # "none"
                THEN /\ raised' = loop.exc
                     /\ district_data' = None
                     /\ ml_results' = None
                     /\ UNCHANGED <<session_state, written_by>>
                ELSE \E a \in {Analyze(loop.slots, fc)} :
                     IF a.exc # "none"
                     THEN /\ raised' = a.exc
                          /\ district_data' = None
                          /\ ml_results' = None
                          /\ session_state' = s1
                          /\ written_by' = w1
                     ELSE \E fit \in Fits(a.ret, fc) :
                          \E t \in {train_ml_models(a.ret, fc, fit)} :
                             IF t.exc # "none"
                             THEN /\ raised' = t.exc
                                  /\ district_data' = a.ret
                                  /\ ml_results' = None
                                  /\ session_state' = s1
                                  /\ written_by' = w1
                             ELSE /\ raised' = "none"
                                  /\ district_data' = t.data
                                  /\ ml_results' = t.results
                                  /\ session_state' =
                                        StoreResults(s1, t.data, t.results, fc)
                                  /\ written_by' = [f \in DOMAIN written_by |-> run]
    /\ pc' = "page"
    /\ UNCHANGED <<df_raw, df_clean, cleansing_report>>

NextApp == ClickAnalyze

SpecApp == InitApp /\ [][NextApp]_vars

-----------------------------------------------------------------------------
(* Claims about the handler and the session, checked under SpecApp.        *)

\* C7 as stated, for the states the dashboard renders: the session fields it
\* reads are all written by the same run.
C7_Original ==
    DashboardShown(session_state) =>
        \A f, g \in DOMAIN written_by : written_by[f] = written_by[g]

\* whether a parsed file has a district column once its names are standardized
HasDistrictColumn(frame) ==
    \E i \in 1..Len(frame.columns) : AppColName(StdColName(frame.columns[i])) = "district"

\* the slots the files of an upload fill, by name
RECURSIVE SlotsOf(_, _, _)
SlotsOf(slots, files, i) ==
    IF i > Len(files) THEN slots
    ELSE SlotsOf([slots EXCEPT ![Classify(files[i].name, slots)] = files[i].frame],
                 files, i + 1)

\* the frames the aggregator of the mode is given
UsedFrames(files) ==
    LET slots == SlotsOf(LoopStart.slots, files, 1)
    IN IF Len(files) >= 2
       THEN {slots[k] : k \in {"enrol", "demo", "bio"}} \ {None}
       ELSE {SingleChoice(slots).single_df}

\* C8 as stated: a run whose aggregator is given a frame with a district column
\* ends without an exception and stores its district table.
C8_Original ==
    (run_no > 0 /\ \E f \in UsedFrames(uploaded_files_list) : HasDistrictColumn(f))
        => /\ raised = "none"
           /\ written_by.district_data = run_no
           /\ IsTable(session_state.district_data)

\* the last click ran to its end
RunCompleted == run_no > 0 /\ raised = "none"

\* the table the aggregator of the completed run returned
Aggregated == Analyze([enrol |-> df_enrol, demo |-> df_demo, bio |-> df_bio], files_count).ret

\* C18: the table stored for rendering is sorted by anomaly_score in
\* non-increasing order in both modes, its first row has the maximum
\* anomaly_score, and it has the rows of the aggregator's table in the same
\* order, the ML stage having only added columns.
C18_SortedThroughML ==
    RunCompleted =>
        LET t == session_state.district_data.rows
            a == Aggregated.rows
        IN /\ \A i \in 1..(Len(t) - 1) : RGe(t[i]["anomaly_score"], t[i + 1]["anomaly_score"])
           /\ \A i \in 1..Len(t) : RGe(t[1]["anomaly_score"], t[i]["anomaly_score"])
           /\ Len(t) = Len(a)
           /\ \A i \in 1..Len(a) :
                 /\ DOMAIN a[i] \subseteq DOMAIN t[i]
                 /\ "ml_confidence" \in DOMAIN t[i]
                 /\ \A c \in DOMAIN a[i] : t[i][c] = a[i][c]

\* a stored table whose first row is of a district that sorts after the second
\* by name and has a greater score
C18_Witness ==
    /\ RunCompleted
    /\ Len(session_state.district_data.rows) = 2
    /\ session_state.district_data.rows[1]["district"] = "Pune"
    /\ session_state.district_data.rows[2]["district"] = "Nashik"
    /\ RGt(session_state.district_data.rows[1]["anomaly_score"],
           session_state.district_data.rows[2]["anomaly_score"])

\* the file loop of the last click ran to its end (the cleansing report is
\* stored right after it)
LoopCompleted == run_no > 0 /\ written_by.cleansing_report = run_no

Roles == {"enrol", "demo", "bio"}

\* the role the name of a file asks for, "none" when it matches no role
NamedRole(name) ==
    IF Contains(Lower(name), "enrol") THEN "enrol"
    ELSE IF Contains(Lower(name), "demo") THEN "demo"
    ELSE IF Contains(Lower(name), "bio") THEN "bio"
    ELSE "none"

\* the role slot the i-th file of an upload is assigned to under the stated
\* rule, a slot being empty when no earlier file of the upload was assigned to it
RECURSIVE RoleOf(_, _)
RoleOf(files, i) ==
    LET Empty(k) == \A j \in 1..(i - 1) : RoleOf(files, j) # k
    IN IF NamedRole(files[i].name) # "none" THEN NamedRole(files[i].name)
       ELSE IF Empty("enrol") THEN "enrol"
       ELSE IF Empty("demo") THEN "demo"
       ELSE "bio"

\* the last file of the upload assigned to slot k under the stated rule, 0 when
\* there is none
LastAssigned(files, k) ==
    LET S == {i \in 1..Len(files) : RoleOf(files, i) = k}
    IN IF S = {} THEN 0 ELSE CHOOSE i \in S : \A j \in S : j <= i

\* whether a slot value is the cleansed and standardized frame of a file
CleansedFrom(value, file) ==
    \E sc \in Scorings(file.frame) :
    \E cleaned \in {clean_pipeline(file.frame, ContaminationPct, sc)} :
        /\ cleaned.exc = "none"
        /\ \E std \in {AppStandardize(cleaned.df)} : std.exc = "none" /\ std.df = value

SlotValue(k) == IF k = "enrol" THEN df_enrol ELSE IF k = "demo" THEN df_demo ELSE df_bio

\* C19: after the file loop of a run, every role slot holds the cleansed frame
\* of the last file of the upload that the naming rule assigns to it (by name:
\* enrol, else demo, else bio; a file matching none to the first of enrol, demo
\* that is empty at its turn, else bio), and is empty when no file is
\* assigned to it.
C19_SlotsByName ==
    LoopCompleted =>
        \A k \in Roles :
            LET i == LastAssigned(uploaded_files_list, k)
            IN IF i = 0 THEN SlotValue(k) = None
               ELSE CleansedFrom(SlotValue(k), uploaded_files_list[i])

\* three files matching no role fill the three slots in upload order
C19_Witness ==
    /\ LoopCompleted
    /\ Len(uploaded_files_list) = 3
    /\ \A i \in 1..3 : NamedRole(uploaded_files_list[i].name) = "none"
    /\ df_enrol # None /\ df_demo # None /\ df_bio # None
    /\ CleansedFrom(df_demo, uploaded_files_list[2])

\* whether the stored table is the given aggregator table with columns added
StoredExtends(agg) ==
    /\ IsTable(agg)
    /\ Len(session_state.district_data.rows) = Len(agg.rows)
    /\ \A i \in 1..Len(agg.rows) :
          \A c \in DOMAIN agg.rows[i] :
              /\ c \in DOMAIN session_state.district_data.rows[i]
              /\ session_state.district_data.rows[i][c] = agg.rows[i][c]

\* the columns of a feature set
FeatureSet(fc) == {feature_cols(fc)[i] : i \in 1..Len(feature_cols(fc))}

\* C20: a completed run of exactly one file stores the single-dataset table of
\* that file's cleansed frame with dataset_type the slot the file filled, a
\* completed run of two or more files stores the multi-dataset table of the
\* three slots, and the ML stage finds every feature of that mode's feature set
\* in the table (no run ends on an empty feature matrix).
C20_ModeByFileCount ==
    /\ raised # "ValueError"
    /\ RunCompleted =>
          /\ files_count = Len(uploaded_files_list)
          /\ session_state.files_count = files_count
          /\ FeatureSet(files_count) \subseteq TableColumns(session_state.district_data)
          /\ IF files_count = 1
             THEN LET k == RoleOf(uploaded_files_list, 1)
                  IN /\ CleansedFrom(SlotValue(k), uploaded_files_list[1])
                     /\ StoredExtends(analyze_single_dataset(SlotValue(k), k).ret)
                     /\ \A r \in TableRows(session_state.district_data) : r.dataset_type = k
                     /\ FeatureSet(2) \cap TableColumns(session_state.district_data) = {}
             ELSE /\ StoredExtends(analyze_multiple_datasets(df_enrol, df_demo, df_bio).ret)
                  /\ FeatureSet(1) \cap TableColumns(session_state.district_data) = {}

\* a completed run of one file that filled the biometric slot
C20_Witness ==
    /\ RunCompleted
    /\ files_count = 1
    /\ df_enrol = None /\ df_demo = None /\ df_bio # None
    /\ session_state.district_data.rows[1]["dataset_type"] = "bio"
    /\ "ml_confidence" \in TableColumns(session_state.district_data)

\* the columns train_ml_models adds
MLColumns ==
    {"ml_anomaly_score", "ml_anomaly_confidence", "ml_confidence",
     "ml_critical_probability", "ml_predicted_risk", "ml_ensemble_score", "ml_risk_level"}

\* the rows of a stored table as the aggregator returned them
AggregatorPart(t) ==
    [i \in 1..Len(t.rows) |-> [c \in (DOMAIN t.rows[i]) \ MLColumns |-> t.rows[i][c]]]

\* two rows of the stored table have the same anomaly_score
HasTie(t) ==
    \E i, j \in 1..Len(t.rows) : i # j /\ t.rows[i]["anomaly_score"] = t.rows[j]["anomaly_score"]

ResultFields(session) ==
    <<session.district_data, session.ml_results, session.files_count, session.data_processed>>

\* C25: in every session state data_processed implies that district_data and
\* ml_results are set and that files_count was stored by the run that stored
\* district_data; data_processed never returns to False; a run that fails
\* leaves district_data, ml_results, files_count and data_processed as they
\* were, and a run that completes stores its own file count.
C25_SessionConsistent ==
    /\ [](session_state.data_processed =>
             /\ session_state.district_data # None
             /\ session_state.ml_results # None
             /\ written_by.files_count = written_by.district_data
             /\ written_by.data_processed = written_by.district_data
             /\ written_by.district_data > 0)
    /\ [][/\ session_state.data_processed => session_state.data_processed'
          /\ raised' # "none" => ResultFields(session_state)' = ResultFields(session_state)
          /\ raised' = "none" =>
                /\ session_state.data_processed'
                /\ session_state.files_count' = Len(uploaded_files_list')
                /\ written_by.district_data' = run_no']_vars

\* a failed run of another file count after a completed one: the session
\* still holds the table and the file count of the first run
C25_Witness ==
    /\ run_no = 2
    /\ raised # "none"
    /\ session_state.data_processed
    /\ session_state.district_data # None
    /\ written_by.district_data = 1
    /\ session_state.files_count # files_count

\* the columns the cleanser adds, as the handler renames them
QualityCols == {"data quality score", "quality rating"}

\* the sum of the data quality score of the rows of district d in a slot frame
QualitySum(df, d) ==
    IF df = None THEN R(0)
    ELSE IF ~HasColumn(df, "district") THEN R(0)
    ELSE DistrictValueIn(df, d, {"data quality score"}, 1, Len(df.rows))

\* the sum of the other summed columns of the rows of district d in a slot frame:
\* the values of the file after imputation and removal of outlier rows
CleansedSum(df, d) ==
    IF df = None THEN R(0)
    ELSE IF ~HasColumn(df, "district") THEN R(0)
    ELSE DistrictValueIn(df, d, ColSet(df) \ QualityCols, 1, Len(df.rows))

\* the district column of an uploaded file, "" when it has none
DistrictColumn(frame) ==
    IF HasDistrictColumn(frame)
    THEN frame.columns[CHOOSE i \in 1..Len(frame.columns) :
                          AppColName(StdColName(frame.columns[i])) = "district"]
    ELSE ""

\* the sum of the numbers the uploaded file itself holds for district d in its
\* columns other than date, state, district, pincode
RECURSIVE UploadedSum(_, _, _)
UploadedSum(frame, d, i) ==
    IF DistrictColumn(frame) = "" THEN R(0)
    ELSE IF i > Len(frame.rows) THEN R(0)
    ELSE RAdd(IF TitleCell(frame.rows[i][DistrictColumn(frame)]) = Str(d)
              THEN RowValue(frame.rows[i],
                            SelectSeq(frame.columns,
                                      LAMBDA c : AppColName(StdColName(c)) \notin ExcludedNames),
                            1)
              ELSE R(0),
              UploadedSum(frame, d, i + 1))

\* the uploaded frame of the file that fills slot k, None when no file does
UploadedFor(k) ==
    IF LastAssigned(uploaded_files_list, k) = 0 THEN None
    ELSE uploaded_files_list[LastAssigned(uploaded_files_list, k)].frame

UploadedTotal(k, d) == IF UploadedFor(k) = None THEN R(0) ELSE UploadedSum(UploadedFor(k), d, 1)

\* the district totals of a stored row by role
RowTotals(r) ==
    IF "total_updates" \in DOMAIN r
    THEN (r.dataset_type :> r.total_updates)
    ELSE ("enrol" :> r.enrol_total) @@ ("demo" :> r.demo_total) @@ ("bio" :> r.bio_total)

\* C26 as stated: every district total of a completed run is the sum of the
\* uploaded file's own values for the district plus the sum of the district's
\* data quality scores.
C26_Original ==
    RunCompleted =>
        \A r \in TableRows(session_state.district_data) :
            \A k \in DOMAIN RowTotals(r) :
                RowTotals(r)[k] = RAdd(UploadedTotal(k, r.district),
                                       QualitySum(SlotValue(k), r.district))

\* C26 amended: every district total of a completed run is the sum of the
\* cleansed frame's values for the district (the file's values after imputation
\* of empty cells and removal of outlier rows) plus the sum of the district's
\* data quality scores, and youth_ratio is computed from that total.
C26_Amended ==
    RunCompleted =>
        \A r \in TableRows(session_state.district_data) :
            /\ \A k \in DOMAIN RowTotals(r) :
                  RowTotals(r)[k] = RAdd(CleansedSum(SlotValue(k), r.district),
                                         QualitySum(SlotValue(k), r.district))
            /\ "total_updates" \in DOMAIN r =>
                  IF RGt(r.total_updates, R(0))
                  THEN IsQuotient(r.youth_ratio, RMul(r.youth_updates, R(100)), r.total_updates)
                  ELSE r.youth_ratio = R(0)
            /\ "compliance_rate" \in DOMAIN r /\ RGt(r.demo_total, R(0)) =>
                  IsQuotient(r.compliance_rate, RMul(r.bio_total, R(100)), r.demo_total)

\* a completed single-file run whose district total is the file's 400 plus the
\* quality score 100 of its one row
C26_Witness ==
    /\ RunCompleted
    /\ files_count = 1
    /\ uploaded_files_list[1].frame = TwoDistricts
    /\ \E r \in TableRows(session_state.district_data) :
          /\ r.district = "Pune"
          /\ QualitySum(SlotValue(r.dataset_type), "Pune") = R(100)
          /\ CleansedSum(SlotValue(r.dataset_type), "Pune") = R(400)
          /\ r.total_updates = R(500)
          /\ r.youth_ratio = R(20)

\* the files of the upload the naming rule assigns to slot k
AssignedTo(files, k) == {i \in 1..Len(files) : RoleOf(files, i) = k}

\* the number of rows of the first i uploaded files
RECURSIVE UploadedRows(_, _)
UploadedRows(files, i) ==
    IF i = 0 THEN 0 ELSE Len(files[i].frame.rows) + UploadedRows(files, i - 1)

\* the districts of the slot frames
SlotDistricts ==
    {d \in {DistrictOrder[i] : i \in 1..Len(DistrictOrder)} :
        FrameHas(df_enrol, d) \/ FrameHas(df_demo, d) \/ FrameHas(df_bio, d)}

\* C27: when the naming rule assigns two files of a run to the same slot, the
\* slot holds the cleansed frame of the later file; the combined cleansing
\* summary counts the rows and holds the reports of all files; and a completed
\* run stores a multi-dataset table whose districts and category totals are
\* those of the slot frames, so that the earlier file adds to no total.
C27_LaterFileWins ==
    (LoopCompleted /\ \E k \in Roles : Cardinality(AssignedTo(uploaded_files_list, k)) >= 2) =>
        /\ \A k \in Roles :
              Cardinality(AssignedTo(uploaded_files_list, k)) >= 2 =>
                 CleansedFrom(SlotValue(k),
                              uploaded_files_list[LastAssigned(uploaded_files_list, k)])
        /\ session_state.cleansing_report.total_rows_before
              = UploadedRows(uploaded_files_list, Len(uploaded_files_list))
        /\ Len(session_state.cleansing_report.detailed_reports) = Len(uploaded_files_list)
        /\ RunCompleted =>
              /\ "gap" \in TableColumns(session_state.district_data)
              /\ {r.district : r \in TableRows(session_state.district_data)} = SlotDistricts
              /\ \A r \in TableRows(session_state.district_data) :
                    /\ r.enrol_total = CategoryTotal(df_enrol, r.district)
                    /\ r.demo_total = CategoryTotal(df_demo, r.district)
                    /\ r.bio_total = CategoryTotal(df_bio, r.district)

\* a completed run of two enrollment files: the table has no row for Nashik,
\* which only the earlier file holds, and the summary counts the rows of both
C27_Witness ==
    /\ RunCompleted
    /\ Len(uploaded_files_list) = 2
    /\ AssignedTo(uploaded_files_list, "enrol") = {1, 2}
    /\ uploaded_files_list[1].frame = TwoDistricts
    /\ uploaded_files_list[2].frame = OneDistrict
    /\ {r.district : r \in TableRows(session_state.district_data)} = {"Pune"}
    /\ session_state.cleansing_report.total_rows_before = 3
    /\ "gap" \in TableColumns(session_state.district_data)

\* the sum of a field of the first i per-file reports
RECURSIVE ReportSum(_, _, _)
ReportSum(reports, field, i) ==
    IF i = 0 THEN 0 ELSE reports[i][field] + ReportSum(reports, field, i - 1)

\* C30: after the file loop of a run the combined summary holds one report per
\* file, the i-th being the report of the i-th file; each report has
\* cleaned_rows = original_rows - rows_removed and rows_removed =
\* outliers_removed; the summary's total_rows_before, total_rows_after and
\* rows_removed are the sums of the reports' original_rows, cleaned_rows and
\* rows_removed; and its removal_rate is rows_removed / total_rows_before * 100,
\* 0 when no rows were input.
C30_ReportsConsistent ==
    LoopCompleted =>
        LET summary == session_state.cleansing_report
            reports == summary.detailed_reports
            n == Len(uploaded_files_list)
        IN /\ Len(reports) = n
           /\ \A i \in 1..n :
                 /\ reports[i].original_rows = Len(uploaded_files_list[i].frame.rows)
                 /\ reports[i].cleaned_rows = reports[i].original_rows - reports[i].rows_removed
                 /\ reports[i].rows_removed = reports[i].outliers.outliers_removed
                 /\ \E sc \in Scorings(uploaded_files_list[i].frame) :
                       reports[i]
                          = clean_pipeline(uploaded_files_list[i].frame, ContaminationPct, sc).report
           /\ summary.total_rows_before = ReportSum(reports, "original_rows", n)
           /\ summary.total_rows_after = ReportSum(reports, "cleaned_rows", n)
           /\ summary.rows_removed = ReportSum(reports, "rows_removed", n)
           /\ IF summary.total_rows_before = 0 THEN summary.removal_rate = R(0)
              ELSE IsQuotient(summary.removal_rate, R(100 * summary.rows_removed),
                              R(summary.total_rows_before))

\* a run of a one-row file and a three-row file that loses a row: two
\* different reports and a summary of 4 rows before, 3 after
C30_Witness ==
    /\ LoopCompleted
    /\ Len(uploaded_files_list) = 2
    /\ session_state.cleansing_report.detailed_reports[1].original_rows = 1
    /\ session_state.cleansing_report.detailed_reports[2].original_rows = 3
    /\ session_state.cleansing_report.detailed_reports[2].rows_removed = 1
    /\ session_state.cleansing_report.total_rows_before = 4
    /\ session_state.cleansing_report.total_rows_after = 3
    /\ session_state.cleansing_report.removal_rate = R(25)

=============================================================================
